---- MODULE Spec2Model ----
(***************************************************************************)
(* Scoring and settlement engines of golfbets: Skins, Wolf, Bingo Bango    *)
(* Bongo, their settlement adapters and the shared greedy netting engine.  *)
(* Every engine is a pure function of its input; each specification below  *)
(* draws the input of one engine from a bounded family and applies it.     *)
(***************************************************************************)
EXTENDS Integers, Sequences, FiniteSets, TLC

VARIABLES
    round,          \* the Round snapshot held by the app (types.ts Round)
    skins,          \* App's memo `skins`
    settlement,     \* App's memo `settlement` (Skins)
    wolf,           \* App's memo `wolf`
    wolfSettlement, \* App's memo `wolfSettlement`
    bbb,            \* App's memo `bbb`
    bbbSettlement,  \* App's memo `bbbSettlement`
    call,           \* arguments of a direct call of the netting engine or an adapter
    result,         \* what the direct call returned
    again,          \* what a second evaluation on the same input returned
    uidCount,       \* how many ids uid() has handed out
    undoRef,        \* App's undoRef.current
    undoActionId,   \* App's undoActionId.current
    stored,         \* App's state `stored` (StoredRounds)
    localStorage,   \* the browser's localStorage: the items under the two keys
    memEvents,      \* track.ts memEvents
    writeTimer,     \* track.ts writeTimer
    timers,         \* the timeouts window.setTimeout has pending
    now             \* Date.now(), counted in events tracked

shell == <<uidCount, undoRef, undoActionId, stored, localStorage, memEvents, writeTimer, timers, now>>

vars == <<round, skins, settlement, wolf, wolfSettlement, bbb, bbbSettlement, call, result, again,
          uidCount, undoRef, undoActionId, stored, localStorage, memEvents, writeTimer, timers, now>>

memos == <<skins, settlement, wolf, wolfSettlement, bbb, bbbSettlement>>

----------------------------------------------------------------------------
(* Bounds of the model *)

MaxCents == 3         \* net balances range over -MaxCents..MaxCents
MinStroke == 3        \* entered strokes range over MinStroke..MaxStroke
MaxStroke == 4
MaxStake == 2         \* stakes and dollars-per-point range up to MaxStake
MaxPoints == 2        \* points per hole, lone multiplier, BBB points range up to MaxPoints
MaxEditHole == 4      \* setStroke re-enters an entry of holes 1..MaxEditHole
MaxNegativeCents == 1 \* a stored dollars-per-point may be as low as -MaxNegativeCents

(* Program constants *)

HoleCount == 18
MinPlayers == 2
MaxPlayers == 4
WolfPlayers == 4

PlayerIds == <<"A", "B", "C", "D">>
NoPlayer == "null"                \* a null PlayerId (winnerId, partnerId, award slot)
NotComputed == [state |-> "pending"]  \* a memo or result not evaluated yet
NullMemo == [state |-> "null"]        \* a memo whose value is null
NoRound == [game |-> "none"]          \* no round is involved
NoCall == [fn |-> "none"]             \* no direct call is involved

Holes == 1..HoleCount

FirstPlayers(n) == SubSeq(PlayerIds, 1, n)

Range(s) == {s[k] : k \in DOMAIN s}

Min2(a, b) == IF a <= b THEN a ELSE b

\* e, with v evaluated first: a loop's accumulator is computed at each iteration
\* rather than left as a chain of unevaluated applications
Strict(v, e) == IF v = v THEN e ELSE e

----------------------------------------------------------------------------
(* NettingEngine: settlementMatcher.ts *)

\* netById[p.id] || 0
NetOr0(netById, p) == IF p \in DOMAIN netById THEN netById[p] ELSE 0

cloneNet(players, netById) ==
    [k \in 1..Len(players) |-> [p |-> players[k], net |-> NetOr0(netById, players[k])]]

\* Array.prototype.sort is stable: x goes after every element it does not precede.
RECURSIVE InsertStable(_, _, _)
InsertStable(sorted, x, desc) ==
    IF sorted = <<>> THEN <<x>>
    ELSE IF (IF desc THEN x.net > Head(sorted).net ELSE x.net < Head(sorted).net)
         THEN <<x>> \o sorted
         ELSE <<Head(sorted)>> \o InsertStable(Tail(sorted), x, desc)

RECURSIVE SortByNet(_, _)
SortByNet(s, desc) ==
    IF s = <<>> THEN <<>>
    ELSE InsertStable(SortByNet(SubSeq(s, 1, Len(s) - 1), desc), s[Len(s)], desc)

IsCreditor(x) == x.net > 0
IsDebtor(x) == x.net < 0

Creditors(players, netById) == SortByNet(SelectSeq(cloneNet(players, netById), IsCreditor), TRUE)
Debtors(players, netById) == SortByNet(SelectSeq(cloneNet(players, netById), IsDebtor), FALSE)

\* a slip that always pays the creditor in full
Pay_fullCredit(d, c) == c.net

\* a slip that always pays off the debtor in full
Pay_fullDebt(d, c) == -d.net

\* a slip that moves one cent per line
Pay_oneCent(d, c) == 1

Pay(d, c) == Min2(-d.net, c.net)

\* a slip that swaps payer and payee
Line_reversed(d, c, pay) == [from |-> c.p, to |-> d.p, amountCents |-> pay]

\* lines.push({ from: d.p, to: c.p, amountCents: pay })
Line(d, c, pay) == [from |-> d.p, to |-> c.p, amountCents |-> pay]

\* the while loop; i and j are the 1-based positions in debtors and creditors;
\* debtors and creditors are the working copies, whose net the loop rewrites
RECURSIVE MatchLoop(_, _, _, _, _)
MatchLoop(debtors, creditors, i, j, out) ==
    IF ~(i <= Len(debtors) /\ j <= Len(creditors))
    THEN [lines |-> out, debtors |-> debtors, creditors |-> creditors]
    ELSE LET d == debtors[i]
             c == creditors[j]
             pay == Pay(d, c)
             d2 == IF pay > 0 THEN [d EXCEPT !.net = @ + pay] ELSE d
             c2 == IF pay > 0 THEN [c EXCEPT !.net = @ - pay] ELSE c
             out2 == IF pay > 0
                     THEN Append(out, Line(d, c, pay))
                     ELSE out
         IN MatchLoop([debtors EXCEPT ![i] = d2], [creditors EXCEPT ![j] = c2],
                      IF d2.net = 0 THEN i + 1 ELSE i,
                      IF c2.net = 0 THEN j + 1 ELSE j,
                      out2)

settlementLinesFromNet(players, netByPlayer) ==
    MatchLoop(Debtors(players, netByPlayer), Creditors(players, netByPlayer), 1, 1, <<>>).lines

\* a slip that sorts and settles the entries of the map itself: the balances
\* the loop leaves in its working entries end up in netByPlayer
NetAfterNetting_writesThrough(players, netByPlayer) ==
    LET m == MatchLoop(Debtors(players, netByPlayer), Creditors(players, netByPlayer), 1, 1, <<>>)
        work == m.debtors \o m.creditors
    IN [p \in DOMAIN netByPlayer |->
          IF \E k \in 1..Len(work) : work[k].p = p
          THEN (CHOOSE x \in Range(work) : x.p = p).net
          ELSE netByPlayer[p]]

\* netByPlayer as the call leaves it: cloneNet builds fresh { p, net } entries,
\* and d.net += pay, c.net -= pay write to those, never to the map
NetAfterNetting(players, netByPlayer) == netByPlayer

----------------------------------------------------------------------------
(* Round snapshot: types.ts *)

NullStroke == 0     \* a stroke entry that is null; entered strokes are >= 1
EmptyMap == [x \in {} |-> 0]

\* round.strokesByHole[hole] || {}
StrokesAt(r, hole) ==
    IF hole \in DOMAIN r.strokesByHole THEN r.strokesByHole[hole] ELSE EmptyMap

\* typeof strokes[p.id] === 'number'
IsNumber(strokes, p) == p \in DOMAIN strokes /\ strokes[p] # NullStroke

RECURSIVE MinOfSeq(_)
\* Math.min(...values) of a non-empty sequence
MinOfSeq(s) == IF Len(s) = 1 THEN s[1] ELSE Min2(Head(s), MinOfSeq(Tail(s)))

ZeroMap(players) == [p \in Range(players) |-> 0]

----------------------------------------------------------------------------
(* SkinsEngine: skins.ts *)

SkinsEntries(r, hole) ==
    LET strokes == StrokesAt(r, hole)
        entered(p) == IsNumber(strokes, p)
        ids == SelectSeq(r.players, entered)
    IN [k \in 1..Len(ids) |-> [id |-> ids[k], v |-> strokes[ids[k]]]]

\* a slip that pays the hole's own skin only
WonSkins_dropsCarry(carry) == 1

\* the skins won by the single low scorer of a hole
WonSkins(carry) == 1 + carry

\* a slip that forgets the tied hole's own skin
CarryAfterTie_keeps(carry) == carry

\* the carry after a hole tied at the low score
CarryAfterTie(carry) == carry + 1

\* a slip that takes a hole with a missing stroke for a tie
CarryAfterIncomplete_counts(carry) == carry + 1

\* a slip that resets the carry on a hole not fully entered
CarryAfterIncomplete_resets(carry) == 0

\* the carry after a hole not fully entered: `continue` leaves it alone
CarryAfterIncomplete(carry) == carry

\* one iteration of the loop over holes18()
SkinsHole(r, acc, hole) ==
    LET entries == SkinsEntries(r, hole)
    IN IF Len(entries) < Len(r.players)
       THEN [skinsWon |-> acc.skinsWon,
             holeResults |-> Append(acc.holeResults,
                [hole |-> hole, carrySkins |-> acc.carry, winnerId |-> NoPlayer, wonSkins |-> 0]),
             carry |-> CarryAfterIncomplete(acc.carry)]
       ELSE LET min == MinOfSeq([k \in 1..Len(entries) |-> entries[k].v])
                isLow(e) == e.v = min
                winners == SelectSeq(entries, isLow)
            IN IF Len(winners) = 1
               THEN LET winnerId == winners[1].id
                        wonSkins == WonSkins(acc.carry)
                    IN [skinsWon |-> [acc.skinsWon EXCEPT ![winnerId] = @ + wonSkins],
                        holeResults |-> Append(acc.holeResults,
                            [hole |-> hole, carrySkins |-> acc.carry,
                             winnerId |-> winnerId, wonSkins |-> wonSkins]),
                        carry |-> 0]
               ELSE [skinsWon |-> acc.skinsWon,
                     holeResults |-> Append(acc.holeResults,
                            [hole |-> hole, carrySkins |-> acc.carry,
                             winnerId |-> NoPlayer, wonSkins |-> 0]),
                     carry |-> CarryAfterTie(acc.carry)]

RECURSIVE SkinsLoop(_, _, _)
SkinsLoop(r, acc, hole) ==
    IF hole > HoleCount THEN acc
    ELSE LET next == SkinsHole(r, acc, hole)
         IN Strict(next, SkinsLoop(r, next, hole + 1))

computeSkins(r) ==
    LET acc == SkinsLoop(r, [skinsWon |-> ZeroMap(r.players), holeResults |-> <<>>, carry |-> 0], 1)
    IN [state |-> "value", holeResults |-> acc.holeResults,
        skinsWon |-> acc.skinsWon, carryToNext |-> acc.carry]

----------------------------------------------------------------------------
(* Skins settlement adapter: settlement.ts *)

\* a slip that credits the winner with a share of their own
SkinsCredit_allPlayers(unit, skinsCount, N) == unit * skinsCount * N

\* what a won hole adds to the net of its winner
SkinsCredit(unit, skinsCount, N) == unit * skinsCount * (N - 1)
\* a slip that charges the losers one skin whatever the carry
SkinsDebit_oneSkin(unit, skinsCount) == unit

SkinsDebit(unit, skinsCount) == unit * skinsCount

SkinsNetHole(r, net2, hr) ==
    IF hr.winnerId = NoPlayer \/ hr.wonSkins <= 0 THEN net2
    ELSE [p \in DOMAIN net2 |->
            IF p = hr.winnerId
            THEN net2[p] + SkinsCredit(r.stakeCents, hr.wonSkins, Len(r.players))
            ELSE net2[p] - SkinsDebit(r.stakeCents, hr.wonSkins)]

RECURSIVE SkinsNetLoop(_, _, _)
SkinsNetLoop(r, net2, hrs) ==
    IF hrs = <<>> THEN net2
    ELSE LET next == SkinsNetHole(r, net2, Head(hrs))
         IN Strict(next, SkinsNetLoop(r, next, Tail(hrs)))

computeSettlement(r) ==
    LET sk == computeSkins(r)
        net2 == SkinsNetLoop(r, ZeroMap(r.players), sk.holeResults)
    IN [state |-> "value", netByPlayer |-> NetAfterNetting(r.players, net2),
        lines |-> settlementLinesFromNet(r.players, net2)]

----------------------------------------------------------------------------
(* WolfEngine: wolf.ts *)

\* a slip that starts the rotation one player late
getWolfId_lateStart(r, hole) ==
    r.players[((r.wolfStartingIndex + hole) % Len(r.players)) + 1]

getWolfId(r, hole) ==
    r.players[((r.wolfStartingIndex + (hole - 1)) % Len(r.players)) + 1]

wolfForHole(r, hole) == [wolfId |-> getWolfId(r, hole)]

\* round.wolfPartnerByHole?.[hole] ?? null
PartnerAt(r, hole) ==
    IF hole \in DOMAIN r.wolfPartnerByHole THEN r.wolfPartnerByHole[hole] ELSE NoPlayer

AllEntered(r, hole) ==
    \A k \in 1..Len(r.players) : IsNumber(StrokesAt(r, hole), r.players[k])

\* Math.min over the strokes of the players of ids (a non-empty sequence)
BestOf(strokes, ids) == MinOfSeq([k \in 1..Len(ids) |-> strokes[ids[k]]])

\* a slip that forgets the lone multiplier
LoneDeltas_noMultiplier(r, wolfId, sign) ==
    [p \in Range(r.players) |-> IF p = wolfId THEN sign * r.wolfPointsPerHole ELSE 0]

\* lone wolf: only the wolf's own delta changes, by sign * pts * loneMult
LoneDeltas(r, wolfId, sign) ==
    [p \in Range(r.players) |->
        IF p = wolfId THEN sign * r.wolfPointsPerHole * r.wolfLoneMultiplier ELSE 0]

\* a slip that pays the wolf team without charging the other team
TeamDeltas_winnersOnly(r, wolfTeam, otherTeam, sign) ==
    [p \in Range(r.players) |->
        IF p \in Range(wolfTeam) THEN sign * r.wolfPointsPerHole ELSE 0]

\* 2v2: each member of the wolf team gets sign * pts, each other player -sign * pts
TeamDeltas(r, wolfTeam, otherTeam, sign) ==
    [p \in Range(r.players) |->
        (IF p \in Range(wolfTeam) THEN sign * r.wolfPointsPerHole ELSE 0)
        - (IF p \in Range(otherTeam) THEN sign * r.wolfPointsPerHole ELSE 0)]

WolfHoleResult(hole, wolfId, partnerId, status, deltas) ==
    [hole |-> hole, wolfId |-> wolfId, partnerId |-> partnerId,
     status |-> status, pointsDeltaByPlayer |-> deltas]

\* the result pushed for one hole
WolfHole(r, hole) ==
    LET wolfId == getWolfId(r, hole)
        partnerId == PartnerAt(r, hole)
        strokes == StrokesAt(r, hole)
        zero == ZeroMap(r.players)
    IN IF ~AllEntered(r, hole)
       THEN WolfHoleResult(hole, wolfId, partnerId, "incomplete", zero)
       ELSE IF partnerId = NoPlayer \/ partnerId = wolfId
       THEN LET wolfScore == strokes[wolfId]
                notWolf(p) == p # wolfId
                othersBest == BestOf(strokes, SelectSeq(r.players, notWolf))
            IN IF wolfScore < othersBest
               THEN WolfHoleResult(hole, wolfId, NoPlayer, "wolfWin", LoneDeltas(r, wolfId, 1))
               ELSE IF wolfScore > othersBest
               THEN WolfHoleResult(hole, wolfId, NoPlayer, "wolfLose", LoneDeltas(r, wolfId, -1))
               ELSE WolfHoleResult(hole, wolfId, NoPlayer, "tie", zero)
       ELSE LET wolfTeam == <<wolfId, partnerId>>
                notTeam(p) == p # wolfId /\ p # partnerId
                otherTeam == SelectSeq(r.players, notTeam)
                wolfBest == BestOf(strokes, wolfTeam)
                otherBest == BestOf(strokes, otherTeam)
            IN IF wolfBest < otherBest
               THEN WolfHoleResult(hole, wolfId, partnerId, "wolfWin",
                                   TeamDeltas(r, wolfTeam, otherTeam, 1))
               ELSE IF wolfBest > otherBest
               THEN WolfHoleResult(hole, wolfId, partnerId, "wolfLose",
                                   TeamDeltas(r, wolfTeam, otherTeam, -1))
               ELSE WolfHoleResult(hole, wolfId, partnerId, "tie", zero)

\* a slip that keeps the last hole's deltas instead of adding them up
ApplyDeltas_overwrites(points, deltas) == [p \in DOMAIN points |-> deltas[p]]

\* apply: pointsByPlayer[id] += d
ApplyDeltas(points, deltas) == [p \in DOMAIN points |-> points[p] + deltas[p]]

RECURSIVE WolfLoop(_, _, _)
WolfLoop(r, acc, hole) ==
    IF hole > HoleCount THEN acc
    ELSE LET hr == WolfHole(r, hole)
             next == [pointsByPlayer |-> ApplyDeltas(acc.pointsByPlayer, hr.pointsDeltaByPlayer),
                      holeResults |-> Append(acc.holeResults, hr)]
         IN Strict(next, WolfLoop(r, next, hole + 1))

computeWolf(r) ==
    LET acc == WolfLoop(r, [pointsByPlayer |-> ZeroMap(r.players), holeResults |-> <<>>], 1)
    IN [state |-> "value", pointsByPlayer |-> acc.pointsByPlayer, holeResults |-> acc.holeResults]

----------------------------------------------------------------------------
(* Wolf settlement adapter: wolfSettlement.ts *)

\* netByPlayer[p.id] = pts * dollarsPerPointCents
WolfNet(pts, dollarsPerPointCents) == pts * dollarsPerPointCents

computeWolfSettlement(players, pointsByPlayer, dollarsPerPointCents) ==
    LET netByPlayer == [p \in Range(players) |->
                           WolfNet(NetOr0(pointsByPlayer, p), dollarsPerPointCents)]
    IN [state |-> "value", netByPlayer |-> NetAfterNetting(players, netByPlayer),
        lines |-> settlementLinesFromNet(players, netByPlayer)]

----------------------------------------------------------------------------
(* BBBEngine: bbb.ts *)

AwardKeys == <<"bingo", "bango", "bongo">>

\* a slip that takes a record with three null slots for a missing one
HasAwards_someWinner(r, h) ==
    /\ h \in DOMAIN r.bbbAwardsByHole
    /\ \E k \in {"bingo", "bango", "bongo"} : r.bbbAwardsByHole[h][k] # NoPlayer

\* holeAwards[h] is a record of the round, or missing
HasAwards(r, h) == h \in DOMAIN r.bbbAwardsByHole

\* if (winner && pointsByPlayer[winner] != null) pointsByPlayer[winner] += 1
AwardPoint(points, winner) ==
    IF winner # NoPlayer /\ winner \in DOMAIN points
    THEN [points EXCEPT ![winner] = @ + 1]
    ELSE points

RECURSIVE AwardKeyLoop(_, _, _)
AwardKeyLoop(points, a, keys) ==
    IF keys = <<>> THEN points
    ELSE LET next == AwardPoint(points, a[Head(keys)])
         IN Strict(next, AwardKeyLoop(next, a, Tail(keys)))

\* the loop over h = 1..18, left at the first hole without a record
RECURSIVE BBBLoop(_, _, _)
BBBLoop(r, acc, h) ==
    IF h > HoleCount \/ ~HasAwards(r, h) THEN acc
    ELSE LET next == [through |-> h,
                      pointsByPlayer |-> AwardKeyLoop(acc.pointsByPlayer,
                                                      r.bbbAwardsByHole[h], AwardKeys)]
         IN Strict(next, BBBLoop(r, next, h + 1))

computeBBB(r) ==
    LET acc == BBBLoop(r, [through |-> 0, pointsByPlayer |-> ZeroMap(r.players)], 1)
    IN [state |-> "value", through |-> acc.through, pointsByPlayer |-> acc.pointsByPlayer,
        holeAwards |-> r.bbbAwardsByHole]

----------------------------------------------------------------------------
(* BBB settlement adapter: bbbSettlement.ts *)

\* players.reduce((sum, p) => sum + (pointsByPlayer[p.id] || 0), 0)
RECURSIVE TotalPoints(_, _)
TotalPoints(players, pointsByPlayer) ==
    IF players = <<>> THEN 0
    ELSE NetOr0(pointsByPlayer, Head(players)) + TotalPoints(Tail(players), pointsByPlayer)

\* a slip that charges the points of the N - 1 opponents only
BBBNet_opponents(pts, N, totalPoints, dollarsPerPointCents) ==
    (pts * (N - 1) - totalPoints) * dollarsPerPointCents

\* netByPlayer[p.id] = (pts * N - totalPoints) * dollarsPerPointCents
BBBNet(pts, N, totalPoints, dollarsPerPointCents) ==
    (pts * N - totalPoints) * dollarsPerPointCents

computeBBBSettlement(players, pointsByPlayer, dollarsPerPointCents) ==
    LET N == Len(players)
    IN IF N <= 1 THEN [state |-> "value", netByPlayer |-> EmptyMap, lines |-> <<>>]
       ELSE LET totalPoints == TotalPoints(players, pointsByPlayer)
                netByPlayer == [p \in Range(players) |->
                    BBBNet(NetOr0(pointsByPlayer, p), N, totalPoints, dollarsPerPointCents)]
            IN [state |-> "value", netByPlayer |-> NetAfterNetting(players, netByPlayer),
                lines |-> settlementLinesFromNet(players, netByPlayer)]

----------------------------------------------------------------------------
(* App handlers that build the inputs: App.tsx *)

MinClamp == 1
MaxClamp == 25

\* Math.max(1, Math.min(25, Math.round(n)))
clampStroke(n) == IF n < MinClamp THEN MinClamp ELSE IF n > MaxClamp THEN MaxClamp ELSE n

\* the round setStroke leaves when nothing refuses it; n is a number or NullStroke
SetStrokeIn(r, hole, playerId, n) ==
    LET holeRec == StrokesAt(r, hole)
        v == IF n = NullStroke THEN NullStroke ELSE clampStroke(n)
        rec == [p \in DOMAIN holeRec \cup {playerId} |->
                   IF p = playerId THEN v ELSE holeRec[p]]
    IN [r EXCEPT !.strokesByHole =
           [h \in DOMAIN r.strokesByHole \cup {hole} |->
               IF h = hole THEN rec ELSE r.strokesByHole[h]]]

----------------------------------------------------------------------------
(* Rounds the app can hold *)

Strokes == MinStroke..MaxStroke

\* the entries of one hole: a stroke for every player, or no record yet (EmptyMap)
HoleEntries(players) == [Range(players) -> Strokes] \cup {EmptyMap}

\* a scorecard whose odd holes hold a and whose even holes hold b
Scorecard(a, b) ==
    LET at(h) == IF h % 2 = 1 THEN a ELSE b
    IN [h \in {x \in Holes : at(x) # EmptyMap} |-> at(h)]

\* createEmptySkinsRound, edited in setup (players, stake)
SkinsRound(n, stake, card) ==
    [game |-> "skins", players |-> FirstPlayers(n), stakeCents |-> stake,
     strokesByHole |-> card, locked |-> FALSE]

\* no entry, or one entry of the first MaxEditHole holes re-entered or blanked
\* by setStroke after score entry
NoEdit == [hole |-> 0]
Edits(players) ==
    {NoEdit} \cup [hole : 1..MaxEditHole, playerId : Range(players),
                   n : Strokes \cup {NullStroke}]

Edited(r, e) == IF e = NoEdit THEN r ELSE SetStrokeIn(r, e.hole, e.playerId, e.n)

----------------------------------------------------------------------------
(* Helpers over results *)

RECURSIVE SumOver(_, _)
\* sum of f[s[k]] over the sequence s of keys
SumOver(s, f) == IF s = <<>> THEN 0 ELSE NetOr0(f, Head(s)) + SumOver(Tail(s), f)

RECURSIVE Received(_, _)
Received(ls, p) ==
    IF ls = <<>> THEN 0
    ELSE (IF Head(ls).to = p THEN Head(ls).amountCents ELSE 0) + Received(Tail(ls), p)

RECURSIVE Paid(_, _)
Paid(ls, p) ==
    IF ls = <<>> THEN 0
    ELSE (IF Head(ls).from = p THEN Head(ls).amountCents ELSE 0) + Paid(Tail(ls), p)

Reconciles(players, ls, net) ==
    \A p \in Range(players) : Received(ls, p) - Paid(ls, p) = NetOr0(net, p)

----------------------------------------------------------------------------
(* App shell and browser state: App.tsx refs and state, track.ts module state *)

NoUndo == [id |-> 0]            \* undoRef.current = null
NoTimer == 0                    \* writeTimer = null; timeout ids are positive
NotLoaded == [loaded |-> FALSE] \* memEvents = null
NoRounds == [rounds |-> <<>>]   \* loadRounds() when nothing is stored

\* the engines below run without the shell: nothing stored, tracked or pending
NoShell ==
    /\ uidCount = 0
    /\ undoRef = NoUndo
    /\ undoActionId = 0
    /\ stored = NoRounds
    /\ localStorage = EmptyMap
    /\ memEvents = NotLoaded
    /\ writeTimer = NoTimer
    /\ timers = {}
    /\ now = 0

----------------------------------------------------------------------------
(* Specification SpecSkins: the app renders a Skins round *)

NoDirectCall ==
    /\ NoShell
    /\ call = NoCall
    /\ result = NotComputed
    /\ again = NotComputed

InitSkins ==
    /\ \E n \in MinPlayers..MaxPlayers, stake \in 1..MaxStake :
         \E a \in HoleEntries(FirstPlayers(n)), b \in HoleEntries(FirstPlayers(n)) :
            \E e \in Edits(FirstPlayers(n)) :
               round = Edited(SkinsRound(n, stake, Scorecard(a, b)), e)
    /\ skins = NotComputed
    /\ settlement = NotComputed
    /\ wolf = NotComputed
    /\ wolfSettlement = NotComputed
    /\ bbb = NotComputed
    /\ bbbSettlement = NotComputed
    /\ NoDirectCall

\* round.wolfDollarsPerPointCents || 0
WolfCents(r) ==
    IF "wolfDollarsPerPointCents" \in DOMAIN r THEN r.wolfDollarsPerPointCents ELSE 0

\* round.bbbDollarsPerPointCents || 0
BBBCents(r) ==
    IF "bbbDollarsPerPointCents" \in DOMAIN r THEN r.bbbDollarsPerPointCents ELSE 0

\* a slip that skips the settlement for a zero amount only
SkipSettlement_zeroOnly(cents) == cents = 0

\* if (cents <= 0) return null
SkipSettlement(cents) == cents <= 0

\* the wolfSettlement hook, given the value w of the wolf hook
WolfSettlementMemo(r, w) ==
    IF r.game # "wolf" THEN NullMemo
    ELSE IF SkipSettlement(WolfCents(r)) THEN NullMemo
    ELSE computeWolfSettlement(r.players, w.pointsByPlayer, WolfCents(r))

\* the bbbSettlement hook, given the value b of the bbb hook
BBBSettlementMemo(r, b) ==
    IF r.game # "bbb" THEN NullMemo
    ELSE IF SkipSettlement(BBBCents(r)) THEN NullMemo
    ELSE computeBBBSettlement(r.players, b.pointsByPlayer, BBBCents(r))

\* what the useMemo hooks evaluate to on round r
RenderedMemos(r) ==
    LET w == IF r.game = "wolf" THEN computeWolf(r) ELSE NullMemo
        b == IF r.game = "bbb" THEN computeBBB(r) ELSE NullMemo
    IN <<IF r.game = "skins" THEN computeSkins(r) ELSE NullMemo,
         IF r.game = "skins" THEN computeSettlement(r) ELSE NullMemo,
         w, WolfSettlementMemo(r, w), b, BBBSettlementMemo(r, b)>>

\* the useMemo hooks of one render of App
Render ==
    /\ skins = NotComputed
    /\ round.game \in {"skins", "wolf", "bbb"}
    /\ skins' = IF round.game = "skins" THEN computeSkins(round) ELSE NullMemo
    /\ settlement' = IF round.game = "skins" THEN computeSettlement(round) ELSE NullMemo
    /\ bbb' = IF round.game = "bbb" THEN computeBBB(round) ELSE NullMemo
    /\ wolf' = IF round.game = "wolf" THEN computeWolf(round) ELSE NullMemo
    /\ wolfSettlement' = WolfSettlementMemo(round, wolf')
    /\ bbbSettlement' = BBBSettlementMemo(round, bbb')
    /\ UNCHANGED <<shell, round, call, result, again>>

SpecSkins == InitSkins /\ [][Render]_vars

----------------------------------------------------------------------------
(* Specification SpecWolf: the app renders a Wolf round *)

\* createEmptyWolfRound, edited in setup and by the partner picker
WolfRound(start, pts, loneMult, cents, card, partner) ==
    [game |-> "wolf", players |-> FirstPlayers(WolfPlayers),
     wolfPointsPerHole |-> pts, wolfLoneMultiplier |-> loneMult,
     wolfDollarsPerPointCents |-> cents, wolfStartingIndex |-> start,
     wolfPartnerByHole |-> partner, strokesByHole |-> card, locked |-> FALSE]

\* the same partner id (or null) picked on every hole, or no pick at all
PartnerMaps ==
    {[h \in Holes |-> p] : p \in Range(PlayerIds) \cup {NoPlayer}} \cup {EmptyMap}

\* the entries of a hole after setStroke blanked the entry of playerId
Blanked(entries, playerId) ==
    IF entries = EmptyMap THEN EmptyMap
    ELSE [p \in DOMAIN entries |-> IF p = playerId THEN NullStroke ELSE entries[p]]

InitWolf ==
    /\ \E start \in 0..(WolfPlayers - 1), pts \in 1..MaxPoints, loneMult \in 1..MaxPoints :
         \E cents \in 0..MaxStake, partner \in PartnerMaps :
            \E a \in HoleEntries(FirstPlayers(WolfPlayers)) :
               \E b \in {a, EmptyMap, Blanked(a, PlayerIds[WolfPlayers])} :
                 round = WolfRound(start, pts, loneMult, cents, Scorecard(a, b), partner)
    /\ skins = NotComputed
    /\ settlement = NotComputed
    /\ wolf = NotComputed
    /\ wolfSettlement = NotComputed
    /\ bbb = NotComputed
    /\ bbbSettlement = NotComputed
    /\ NoDirectCall

SpecWolf == InitWolf /\ [][Render]_vars

----------------------------------------------------------------------------
(* Specification SpecBBB: the app renders a Bingo Bango Bongo round *)

\* createEmptyBBBRound, edited in setup and by the award buttons
BBBRound(n, cents, awards) ==
    [game |-> "bbb", players |-> FirstPlayers(n), bbbDollarsPerPointCents |-> cents,
     bbbAwardsByHole |-> awards, strokesByHole |-> EmptyMap, locked |-> FALSE]

\* one hole's record: each slot names a player (possibly one removed since) or null
AwardRecords == [{"bingo", "bango", "bongo"} -> Range(PlayerIds) \cup {NoPlayer}]

\* holes 1..k entered, and possibly the holes after a skipped hole k + 1 as well
EnteredHoles ==
    {1..k : k \in 0..HoleCount} \cup {Holes \ {k + 1} : k \in 0..(HoleCount - 2)}

InitBBB ==
    /\ \E n \in MinPlayers..MaxPlayers, cents \in 0..MaxStake :
         \E rec \in AwardRecords, H \in EnteredHoles :
            round = BBBRound(n, cents, [h \in H |-> rec])
    /\ skins = NotComputed
    /\ settlement = NotComputed
    /\ wolf = NotComputed
    /\ wolfSettlement = NotComputed
    /\ bbb = NotComputed
    /\ bbbSettlement = NotComputed
    /\ NoDirectCall

SpecBBB == InitBBB /\ [][Render]_vars

----------------------------------------------------------------------------
(* Specification SpecNet: direct calls of the netting engine *)

NoRender ==
    /\ round = NoRound
    /\ skins = NotComputed
    /\ settlement = NotComputed
    /\ wolf = NotComputed
    /\ wolfSettlement = NotComputed
    /\ bbb = NotComputed
    /\ bbbSettlement = NotComputed

\* every map from some of the players to a balance in cents
NetMaps(players) ==
    UNION {[S -> (-MaxCents)..MaxCents] : S \in SUBSET Range(players)}

InitNet ==
    /\ NoShell
    /\ NoRender
    /\ \E n \in MinPlayers..MaxPlayers :
         \E m \in NetMaps(FirstPlayers(n)) :
            call = [fn |-> "settlementLinesFromNet",
                    players |-> FirstPlayers(n), netByPlayer |-> m]
    /\ result = NotComputed
    /\ again = NotComputed

CallSettlementLinesFromNet ==
    /\ call.fn = "settlementLinesFromNet"
    /\ result = NotComputed
    /\ result' = [state |-> "value",
                  lines |-> settlementLinesFromNet(call.players, call.netByPlayer)]
    /\ call' = [call EXCEPT !.netByPlayer = NetAfterNetting(call.players, @)]
    /\ UNCHANGED <<shell, round, memos, again>>

SpecNet == InitNet /\ [][CallSettlementLinesFromNet]_vars

----------------------------------------------------------------------------
(* Specification SpecPoints: direct calls of the BBB settlement adapter *)

\* every map from some of the players to a number of points
PointMaps(players) ==
    UNION {[S -> 0..MaxPoints] : S \in SUBSET Range(players)}

InitPoints ==
    /\ NoShell
    /\ NoRender
    /\ \E n \in MinPlayers..MaxPlayers, cents \in 1..MaxStake :
         \E m \in PointMaps(FirstPlayers(n)) :
            call = [fn |-> "computeBBBSettlement", players |-> FirstPlayers(n),
                    pointsByPlayer |-> m, dollarsPerPointCents |-> cents]
    /\ result = NotComputed
    /\ again = NotComputed

CallComputeBBBSettlement ==
    /\ call.fn = "computeBBBSettlement"
    /\ result = NotComputed
    /\ result' = computeBBBSettlement(call.players, call.pointsByPlayer,
                                      call.dollarsPerPointCents)
    /\ UNCHANGED <<shell, round, memos, call, again>>

SpecPoints == InitPoints /\ [][CallComputeBBBSettlement]_vars

----------------------------------------------------------------------------
(* Specification SpecTwice: every engine and adapter evaluated twice on the *)
(* same input, over rounds of the three games and direct calls             *)

\* award records whose bingo and bango went to the same player (or to nobody)
PairedAwardRecords == {rec \in AwardRecords : rec.bingo = rec.bango}

\* Skins rounds as score entry leaves them
TwiceSkinsRound ==
    \E n \in MinPlayers..MaxPlayers, stake \in 1..MaxStake :
        \E a \in HoleEntries(FirstPlayers(n)), b \in HoleEntries(FirstPlayers(n)) :
            round = SkinsRound(n, stake, Scorecard(a, b))

\* Wolf rounds with dollars per point set and the rotation starting at the first player
TwiceWolfRound ==
    \E pts \in 1..MaxPoints, loneMult \in 1..MaxPoints, cents \in 1..MaxStake :
        \E partner \in PartnerMaps, a \in HoleEntries(FirstPlayers(WolfPlayers)) :
            \E b \in {a, EmptyMap, Blanked(a, PlayerIds[WolfPlayers])} :
                round = WolfRound(0, pts, loneMult, cents, Scorecard(a, b), partner)

\* BBB rounds with dollars per point set
TwiceBBBRound ==
    \E n \in MinPlayers..MaxPlayers, cents \in 1..MaxStake :
        \E rec \in PairedAwardRecords, H \in EnteredHoles :
            round = BBBRound(n, cents, [h \in H |-> rec])

TwiceNetCall ==
    \E n \in MinPlayers..MaxPlayers :
        \E m \in NetMaps(FirstPlayers(n)) :
            call = [fn |-> "settlementLinesFromNet",
                    players |-> FirstPlayers(n), netByPlayer |-> m]

TwicePointsCall ==
    \E n \in MinPlayers..MaxPlayers, cents \in 1..MaxStake :
        \E m \in PointMaps(FirstPlayers(n)) :
            call = [fn |-> "computeBBBSettlement", players |-> FirstPlayers(n),
                    pointsByPlayer |-> m, dollarsPerPointCents |-> cents]

InitTwice ==
    /\ NoShell
    /\ \/ (call = NoCall /\ (TwiceSkinsRound \/ TwiceWolfRound \/ TwiceBBBRound))
       \/ (round = NoRound /\ (TwiceNetCall \/ TwicePointsCall))
    /\ skins = NotComputed
    /\ settlement = NotComputed
    /\ wolf = NotComputed
    /\ wolfSettlement = NotComputed
    /\ bbb = NotComputed
    /\ bbbSettlement = NotComputed
    /\ result = NotComputed
    /\ again = NotComputed

\* the hooks evaluated once more on the round the first render left
RenderAgain ==
    /\ skins # NotComputed
    /\ again = NotComputed
    /\ again' = [state |-> "value", memos |-> RenderedMemos(round)]
    /\ UNCHANGED <<shell, round, memos, call, result>>

\* settlementLinesFromNet called once more with the same arguments
CallSettlementLinesFromNetAgain ==
    /\ call.fn = "settlementLinesFromNet"
    /\ result # NotComputed
    /\ again = NotComputed
    /\ again' = [state |-> "value",
                 lines |-> settlementLinesFromNet(call.players, call.netByPlayer)]
    /\ call' = [call EXCEPT !.netByPlayer = NetAfterNetting(call.players, @)]
    /\ UNCHANGED <<shell, round, memos, result>>

\* computeBBBSettlement called once more with the same arguments
CallComputeBBBSettlementAgain ==
    /\ call.fn = "computeBBBSettlement"
    /\ result # NotComputed
    /\ again = NotComputed
    /\ again' = computeBBBSettlement(call.players, call.pointsByPlayer,
                                     call.dollarsPerPointCents)
    /\ UNCHANGED <<shell, round, memos, call, result>>

NextTwice ==
    \/ Render
    \/ RenderAgain
    \/ CallSettlementLinesFromNet
    \/ CallSettlementLinesFromNetAgain
    \/ CallComputeBBBSettlement
    \/ CallComputeBBBSettlementAgain

SpecTwice == InitTwice /\ [][NextTwice]_vars

----------------------------------------------------------------------------
(* Specification SpecMoney: the app renders rounds of the three games whose *)
(* dollars per point is unset, negative, zero or positive                  *)

\* round r without the optional field f
Unset(r, f) == [k \in DOMAIN r \ {f} |-> r[k]]

MoneyWolfRound ==
    \E pts \in 1..MaxPoints, loneMult \in 1..MaxPoints, cents \in (-MaxNegativeCents)..MaxStake :
        \E partner \in PartnerMaps, a \in HoleEntries(FirstPlayers(WolfPlayers)) :
            \E b \in {a, EmptyMap, Blanked(a, PlayerIds[WolfPlayers])} :
                \E set \in (IF cents = 0 THEN BOOLEAN ELSE {TRUE}) :
                    LET r == WolfRound(0, pts, loneMult, cents, Scorecard(a, b), partner)
                    IN round = IF set THEN r ELSE Unset(r, "wolfDollarsPerPointCents")

MoneyBBBRound ==
    \E n \in MinPlayers..MaxPlayers, cents \in (-MaxNegativeCents)..MaxStake :
        \E rec \in PairedAwardRecords, H \in EnteredHoles :
            \E set \in (IF cents = 0 THEN BOOLEAN ELSE {TRUE}) :
                LET r == BBBRound(n, cents, [h \in H |-> rec])
                IN round = IF set THEN r ELSE Unset(r, "bbbDollarsPerPointCents")

InitMoney ==
    /\ TwiceSkinsRound \/ MoneyWolfRound \/ MoneyBBBRound
    /\ skins = NotComputed
    /\ settlement = NotComputed
    /\ wolf = NotComputed
    /\ wolfSettlement = NotComputed
    /\ bbb = NotComputed
    /\ bbbSettlement = NotComputed
    /\ NoDirectCall

SpecMoney == InitMoney /\ [][Render]_vars

----------------------------------------------------------------------------
(* Claims about Skins rounds, checked under SpecSkins *)

Complete(r) == \A h \in Holes : AllEntered(r, h)

\* the players at the minimum stroke of a fully entered hole
LowScorers(r, h) ==
    LET strokes == StrokesAt(r, h)
    IN {p \in Range(r.players) : \A q \in Range(r.players) : strokes[p] <= strokes[q]}

\* the carry a hole hands to the next one (after hole 18: carryToNext)
CarryPassedOn(sk, h) ==
    IF h < HoleCount THEN sk.holeResults[h + 1].carrySkins ELSE sk.carryToNext

\* C5: the netByPlayer of every Skins settlement sums to exactly 0.
C5_SkinsNetSumsToZero ==
    settlement.state = "value" => SumOver(round.players, settlement.netByPlayer) = 0

C5_Witness ==
    /\ settlement.state = "value"
    /\ skins.state = "value"
    /\ \E p \in Range(round.players) : settlement.netByPlayer[p] > 0
    /\ \E h \in Holes : skins.holeResults[h].wonSkins >= 2
    /\ \E h \in Holes : ~AllEntered(round, h)
    /\ Len(round.players) = MaxPlayers

\* C7: in a round with every stroke entered, the skins won by all players
\* plus the carry left after hole 18 are 18.
C7_CompleteRoundHas18Skins ==
    (skins.state = "value" /\ Complete(round)) =>
        SumOver(round.players, skins.skinsWon) + skins.carryToNext = 18

C7_Witness ==
    /\ skins.state = "value"
    /\ Complete(round)
    /\ skins.carryToNext > 0
    /\ \E h \in Holes : skins.holeResults[h].wonSkins >= 2

\* C10: on a fully entered hole, a single low scorer wins 1 + incoming carry
\* skins and the carry passed on is 0; a tie at the low score has no winner
\* and no skins, records the incoming carry and passes on that carry + 1.
C10_DecidedHole ==
    skins.state = "value" =>
        \A h \in Holes :
            AllEntered(round, h) =>
                LET hr == skins.holeResults[h]
                    low == LowScorers(round, h)
                    incoming == IF h = 1 THEN 0 ELSE CarryPassedOn(skins, h - 1)
                IN /\ hr.hole = h
                   /\ hr.carrySkins = incoming
                   /\ IF Cardinality(low) = 1
                      THEN /\ hr.winnerId \in low
                           /\ hr.wonSkins = 1 + incoming
                           /\ CarryPassedOn(skins, h) = 0
                      ELSE /\ hr.winnerId = NoPlayer
                           /\ hr.wonSkins = 0
                           /\ CarryPassedOn(skins, h) = incoming + 1

C10_Witness ==
    /\ skins.state = "value"
    /\ \E h \in Holes :
          /\ AllEntered(round, h)
          /\ Cardinality(LowScorers(round, h)) = 1
          /\ skins.holeResults[h].carrySkins >= 2
    /\ \E h \in Holes :
          /\ AllEntered(round, h)
          /\ Cardinality(LowScorers(round, h)) >= 2
          /\ skins.holeResults[h].carrySkins >= 1

\* the skins the hole results award to player p
RECURSIVE SkinsAwarded(_, _)
SkinsAwarded(hrs, p) ==
    IF hrs = <<>> THEN 0
    ELSE (IF Head(hrs).winnerId = p THEN Head(hrs).wonSkins ELSE 0) + SkinsAwarded(Tail(hrs), p)

\* C11: a hole with a missing stroke has no winner and zero skins won, adds
\* to nobody's skinsWon (skinsWon is exactly what the decided holes award)
\* and passes the incoming carry on unchanged, so the next winner of a hole
\* is still paid the carry accumulated before it (plus the ties in between).
C11_IncompleteHoleKeepsCarry ==
    skins.state = "value" =>
        /\ \A h \in Holes :
              ~AllEntered(round, h) =>
                  LET hr == skins.holeResults[h]
                      incoming == IF h = 1 THEN 0 ELSE CarryPassedOn(skins, h - 1)
                  IN /\ hr.hole = h
                     /\ hr.winnerId = NoPlayer
                     /\ hr.wonSkins = 0
                     /\ hr.carrySkins = incoming
                     /\ CarryPassedOn(skins, h) = incoming
        /\ \A p \in Range(round.players) :
              skins.skinsWon[p] = SkinsAwarded(skins.holeResults, p)
        /\ \A h \in Holes, h2 \in Holes :
              (/\ h < h2
               /\ ~AllEntered(round, h)
               /\ \A k \in (h + 1)..(h2 - 1) : skins.holeResults[k].winnerId = NoPlayer
               /\ skins.holeResults[h2].winnerId # NoPlayer)
              => skins.holeResults[h2].wonSkins =
                    1 + skins.holeResults[h].carrySkins
                      + Cardinality({k \in (h + 1)..(h2 - 1) : AllEntered(round, k)})

C11_Witness ==
    /\ skins.state = "value"
    /\ \E h \in Holes, h2 \in Holes :
          /\ h < h2
          /\ ~AllEntered(round, h)
          /\ skins.holeResults[h].carrySkins >= 1
          /\ \E p \in Range(round.players) : IsNumber(StrokesAt(round, h), p)
          /\ \A k \in (h + 1)..(h2 - 1) : skins.holeResults[k].winnerId = NoPlayer
          /\ skins.holeResults[h2].winnerId # NoPlayer
          /\ skins.holeResults[h2].wonSkins >= 2

\* what the hole results credit to and debit from player p, hole by hole
RECURSIVE PerHoleNet(_, _, _, _)
PerHoleNet(hrs, p, s, N) ==
    IF hrs = <<>> THEN 0
    ELSE (IF Head(hrs).winnerId = NoPlayer THEN 0
          ELSE IF Head(hrs).winnerId = p THEN s * Head(hrs).wonSkins * (N - 1)
          ELSE -(s * Head(hrs).wonSkins))
         + PerHoleNet(Tail(hrs), p, s, N)

\* C12: with N players and stake s, net[p] = s * (N * skinsWon[p] - the sum
\* of all skinsWon), which is what the holes give one by one: a won hole
\* credits its winner s * wonSkins * (N - 1) and debits every other player
\* s * wonSkins, and a hole without a winner contributes nothing.
C12_SkinsNetMatchesBreakdown ==
    (settlement.state = "value" /\ skins.state = "value") =>
        LET N == Len(round.players)
            s == round.stakeCents
            total == SumOver(round.players, skins.skinsWon)
        IN \A p \in Range(round.players) :
              /\ settlement.netByPlayer[p] = s * (N * skins.skinsWon[p] - total)
              /\ settlement.netByPlayer[p] = PerHoleNet(skins.holeResults, p, s, N)

C12_Witness ==
    /\ settlement.state = "value"
    /\ skins.state = "value"
    /\ Len(round.players) >= 3
    /\ round.stakeCents >= 2
    /\ \E p \in Range(round.players), q \in Range(round.players) :
          /\ p # q
          /\ skins.skinsWon[p] >= 2
          /\ skins.skinsWon[q] >= 1
    /\ \E h \in Holes : skins.holeResults[h].winnerId = NoPlayer
    /\ \E h \in Holes : skins.holeResults[h].wonSkins >= 2

----------------------------------------------------------------------------
(* Claims about the netting engine, checked under SpecNet *)

ZeroSum(players, net) == SumOver(players, net) = 0

CreditorCount(players, net) == Cardinality({p \in Range(players) : NetOr0(net, p) > 0})
DebtorCount(players, net) == Cardinality({p \in Range(players) : NetOr0(net, p) < 0})

\* C1: for a balance map that sums to zero, every player's receipts minus
\* payments over the returned lines equal that player's balance.
C1_LinesReconcileZeroSumNet ==
    (result.state = "value" /\ ZeroSum(call.players, call.netByPlayer)) =>
        Reconciles(call.players, result.lines, call.netByPlayer)

C1_Witness ==
    /\ result.state = "value"
    /\ ZeroSum(call.players, call.netByPlayer)
    /\ Len(result.lines) >= 3
    /\ DebtorCount(call.players, call.netByPlayer) = 2

\* C8 as stated: for a balance map that sums to zero, the number of lines
\* never exceeds #creditors + #debtors - 1.
C8_LineCountBound ==
    (result.state = "value" /\ ZeroSum(call.players, call.netByPlayer)) =>
        Len(result.lines) <= CreditorCount(call.players, call.netByPlayer)
                             + DebtorCount(call.players, call.netByPlayer) - 1

\* C8 amended: for a balance map that sums to zero and has a non-zero
\* balance, the number of lines never exceeds #creditors + #debtors - 1;
\* when every balance is zero there are no lines.
C8_LineCountBoundNonZero ==
    (result.state = "value" /\ ZeroSum(call.players, call.netByPlayer)) =>
        LET parties == CreditorCount(call.players, call.netByPlayer)
                       + DebtorCount(call.players, call.netByPlayer)
        IN IF parties = 0 THEN Len(result.lines) = 0
           ELSE Len(result.lines) <= parties - 1

C8_Witness ==
    /\ result.state = "value"
    /\ ZeroSum(call.players, call.netByPlayer)
    /\ CreditorCount(call.players, call.netByPlayer) = 2
    /\ DebtorCount(call.players, call.netByPlayer) = 2
    /\ Len(result.lines) = 3

\* C9: every line has a positive amount, is paid by a player whose balance is
\* negative and goes to a player whose balance is positive, so players with a
\* zero or missing balance appear in no line and nobody pays themself.
C9_LinesPayDebtorToCreditor ==
    result.state = "value" =>
        \A k \in 1..Len(result.lines) :
            LET l == result.lines[k]
            IN /\ l.amountCents > 0
               /\ NetOr0(call.netByPlayer, l.from) < 0
               /\ NetOr0(call.netByPlayer, l.to) > 0
               /\ l.from # l.to

C9_Witness ==
    /\ result.state = "value"
    /\ Len(result.lines) >= 1
    /\ \E p \in DOMAIN call.netByPlayer : call.netByPlayer[p] = 0
    /\ \E p \in Range(call.players) : p \notin DOMAIN call.netByPlayer

----------------------------------------------------------------------------
(* Claims about the BBB settlement adapter, checked under SpecPoints *)

\* C6: for N >= 2 players and any non-negative points, net[p] is
\* dollarsPerPointCents * (points[p] * N - totalPoints) and the nets sum to 0.
C6_BBBNetSumsToZero ==
    (call.fn = "computeBBBSettlement" /\ result.state = "value") =>
        LET N == Len(call.players)
            total == SumOver(call.players, call.pointsByPlayer)
        IN /\ \A p \in Range(call.players) :
                result.netByPlayer[p] =
                    call.dollarsPerPointCents * (NetOr0(call.pointsByPlayer, p) * N - total)
           /\ SumOver(call.players, result.netByPlayer) = 0

C6_Witness ==
    /\ call.fn = "computeBBBSettlement"
    /\ result.state = "value"
    /\ Len(call.players) = MaxPlayers
    /\ \E p \in Range(call.players) :
          /\ NetOr0(call.pointsByPlayer, p) = MaxPoints
          /\ \A q \in Range(call.players) \ {p} : NetOr0(call.pointsByPlayer, q) = 0
    /\ Len(result.lines) = MaxPlayers - 1

----------------------------------------------------------------------------
(* Claims about Wolf rounds, checked under SpecWolf *)

SettlementReconciles(st) ==
    st.state = "value" => Reconciles(round.players, st.lines, st.netByPlayer)

\* C2: the lines of every settlement the app computes (Skins, Wolf, BBB)
\* reconcile its netByPlayer: receipts minus payments equal each player's net.
C2_SettlementLinesReconcile ==
    /\ SettlementReconciles(settlement)
    /\ SettlementReconciles(wolfSettlement)
    /\ SettlementReconciles(bbbSettlement)

\* C3: on every hole whose status is wolfWin or wolfLose the point deltas of
\* the players sum to 0, in team mode and in lone mode.
C3_WolfHoleDeltasSumToZero ==
    wolf.state = "value" =>
        \A h \in Holes :
            wolf.holeResults[h].status \in {"wolfWin", "wolfLose"} =>
                SumOver(round.players, wolf.holeResults[h].pointsDeltaByPlayer) = 0

\* C4: the net balances computeWolfSettlement builds from computeWolf's
\* points sum to exactly zero.
C4_WolfNetSumsToZero ==
    wolfSettlement.state = "value" =>
        SumOver(round.players, wolfSettlement.netByPlayer) = 0

\* C13: on every hole h the wolf recorded by computeWolf, and the one
\* wolfForHole returns, is players[(startingIndex + h - 1) mod playerCount]:
\* one wolf per hole, whatever the strokes and the partner choices.
C13_WolfRotation ==
    wolf.state = "value" =>
        /\ Len(wolf.holeResults) = HoleCount
        /\ \A h \in Holes :
              LET idx == (round.wolfStartingIndex + h - 1) % Len(round.players)
              IN /\ wolf.holeResults[h].hole = h
                 /\ wolf.holeResults[h].wolfId = round.players[idx + 1]
                 /\ wolfForHole(round, h).wolfId = round.players[idx + 1]

C13_Witness ==
    /\ wolf.state = "value"
    /\ round.wolfStartingIndex = 3
    /\ wolf.holeResults[1].wolfId = "D"
    /\ wolf.holeResults[1].status = "wolfLose"
    /\ wolf.holeResults[2].wolfId = "A"
    /\ wolf.holeResults[2].status = "incomplete"
    /\ wolf.holeResults[3].partnerId = "C"

\* the hole is fully entered and its configured partner is null or the wolf
LoneHole(r, h) ==
    /\ AllEntered(r, h)
    /\ PartnerAt(r, h) \in {NoPlayer, wolfForHole(r, h).wolfId}

\* the lowest stroke of the players of S on a fully entered hole
LowestOf(r, h, S) ==
    CHOOSE m \in {StrokesAt(r, h)[q] : q \in S} : \A q \in S : m <= StrokesAt(r, h)[q]

\* C14: a fully entered hole whose configured partner is null or the wolf is
\* scored in lone mode with partner recorded as null: wolfWin with
\* +pointsPerHole * loneMultiplier for the wolf when the wolf is strictly
\* below the best of the others, wolfLose with the negated amount when
\* strictly above, tie with 0 when equal; every other player's delta is 0.
C14_LoneWolfHole ==
    wolf.state = "value" =>
        \A h \in Holes :
            LoneHole(round, h) =>
                LET hr == wolf.holeResults[h]
                    w == hr.wolfId
                    wolfScore == StrokesAt(round, h)[w]
                    othersBest == LowestOf(round, h, Range(round.players) \ {w})
                    amount == round.wolfPointsPerHole * round.wolfLoneMultiplier
                IN /\ hr.partnerId = NoPlayer
                   /\ hr.status = (IF wolfScore < othersBest THEN "wolfWin"
                                   ELSE IF wolfScore > othersBest THEN "wolfLose"
                                   ELSE "tie")
                   /\ hr.pointsDeltaByPlayer[w] =
                         (IF wolfScore < othersBest THEN amount
                          ELSE IF wolfScore > othersBest THEN -amount
                          ELSE 0)
                   /\ \A q \in Range(round.players) \ {w} : hr.pointsDeltaByPlayer[q] = 0

C14_Witness ==
    /\ wolf.state = "value"
    /\ round.wolfLoneMultiplier >= 2
    /\ round.wolfPointsPerHole >= 2
    /\ \E h \in Holes :
          /\ LoneHole(round, h)
          /\ PartnerAt(round, h) = wolf.holeResults[h].wolfId
          /\ wolf.holeResults[h].status = "wolfWin"
          /\ wolf.holeResults[h].pointsDeltaByPlayer[wolf.holeResults[h].wolfId] >= 4

\* a lone hole lost by the wolf and a lone hole tied are scored as well
C14_WitnessLoseAndTie ==
    /\ wolf.state = "value"
    /\ \E h \in Holes : LoneHole(round, h) /\ wolf.holeResults[h].status = "wolfLose"
    /\ \E h \in Holes : LoneHole(round, h) /\ wolf.holeResults[h].status = "tie"

\* the hole is fully entered and its configured partner is another player
TeamHole(r, h) ==
    /\ AllEntered(r, h)
    /\ PartnerAt(r, h) \notin {NoPlayer, wolfForHole(r, h).wolfId}

\* C15: in a 4-player round, a fully entered hole whose configured partner is
\* another player compares the best ball of wolf and partner with the best
\* ball of the other two: strictly lower is wolfWin with +pointsPerHole for
\* wolf and partner and -pointsPerHole for the other two, strictly higher is
\* wolfLose with the signs reversed, equal is a tie with every delta 0.
C15_TeamHole ==
    wolf.state = "value" =>
        \A h \in Holes :
            TeamHole(round, h) =>
                LET hr == wolf.holeResults[h]
                    team == {hr.wolfId, PartnerAt(round, h)}
                    others == Range(round.players) \ team
                    wolfBest == LowestOf(round, h, team)
                    otherBest == LowestOf(round, h, others)
                    pts == round.wolfPointsPerHole
                    sign == IF wolfBest < otherBest THEN 1
                            ELSE IF wolfBest > otherBest THEN -1 ELSE 0
                IN /\ hr.partnerId = PartnerAt(round, h)
                   /\ Cardinality(team) = 2
                   /\ Cardinality(others) = 2
                   /\ hr.status = (IF sign = 1 THEN "wolfWin"
                                   ELSE IF sign = -1 THEN "wolfLose" ELSE "tie")
                   /\ \A q \in team : hr.pointsDeltaByPlayer[q] = sign * pts
                   /\ \A q \in others : hr.pointsDeltaByPlayer[q] = -(sign * pts)

C15_Witness ==
    /\ wolf.state = "value"
    /\ round.wolfPointsPerHole >= 2
    /\ \E h \in Holes :
          /\ TeamHole(round, h)
          /\ wolf.holeResults[h].status = "wolfWin"
    /\ \E h \in Holes : TeamHole(round, h) /\ wolf.holeResults[h].status = "wolfLose"

\* a team hole tied on best ball is scored as well
C15_WitnessTie ==
    /\ wolf.state = "value"
    /\ \E h \in Holes : TeamHole(round, h) /\ wolf.holeResults[h].status = "tie"

\* and so is a team hole won by the partner's ball
C15_WitnessPartnerBall ==
    /\ wolf.state = "value"
    /\ \E h \in Holes :
          /\ TeamHole(round, h)
          /\ wolf.holeResults[h].status = "wolfWin"
          /\ StrokesAt(round, h)[wolf.holeResults[h].wolfId]
               > StrokesAt(round, h)[wolf.holeResults[h].partnerId]

\* some player has no numeric stroke on hole h
HasMissingStroke(r, h) ==
    \E p \in Range(r.players) :
        \/ h \notin DOMAIN r.strokesByHole
        \/ p \notin DOMAIN r.strokesByHole[h]
        \/ r.strokesByHole[h][p] = NullStroke

\* the sum of player p's recorded deltas over the hole results
RECURSIVE DeltaSum(_, _)
DeltaSum(hrs, p) ==
    IF hrs = <<>> THEN 0
    ELSE Head(hrs).pointsDeltaByPlayer[p] + DeltaSum(Tail(hrs), p)

\* C16: a hole is incomplete exactly when some player has no numeric stroke
\* on it; an incomplete hole (and a tied one) records all-zero deltas whatever
\* the partner choice and the strokes present; pointsByPlayer[p] is the sum
\* of p's recorded deltas over the 18 hole results.
C16_WolfIncompleteAndTotals ==
    wolf.state = "value" =>
        /\ \A h \in Holes :
              /\ (wolf.holeResults[h].status = "incomplete") <=> HasMissingStroke(round, h)
              /\ wolf.holeResults[h].status \in {"incomplete", "tie"} =>
                    \A p \in Range(round.players) :
                        wolf.holeResults[h].pointsDeltaByPlayer[p] = 0
        /\ \A p \in Range(round.players) :
              wolf.pointsByPlayer[p] = DeltaSum(wolf.holeResults, p)

C16_Witness ==
    /\ wolf.state = "value"
    /\ \E h \in Holes :
          /\ wolf.holeResults[h].status = "incomplete"
          /\ PartnerAt(round, h) \notin {NoPlayer, wolf.holeResults[h].wolfId}
          /\ \E p \in Range(round.players) : IsNumber(StrokesAt(round, h), p)
    /\ \E h \in Holes : wolf.holeResults[h].status = "tie"
    /\ \E p \in Range(round.players) :
          wolf.pointsByPlayer[p] >= 3 * round.wolfPointsPerHole

----------------------------------------------------------------------------
(* Claims about Bingo Bango Bongo rounds, checked under SpecBBB *)

\* the award slots won by player p over the hole records of the holes of H
SlotsWon(r, H, p) ==
    Cardinality({s \in (H \cap DOMAIN r.bbbAwardsByHole) \X Range(AwardKeys) :
                    r.bbbAwardsByHole[s[1]][s[2]] = p})

\* C17: pointsByPlayer[p] is the number of award slots won by p over all the
\* hole records present in the round for holes 1..18; null slots earn nothing.
C17_BBBPointsCountAllRecords ==
    bbb.state = "value" =>
        \A p \in Range(round.players) : bbb.pointsByPlayer[p] = SlotsWon(round, Holes, p)

\* C18: through is the largest h in 0..18 such that every hole 1..h has an
\* award record; a record of three null slots counts, and records after the
\* first missing one do not raise it.
C18_BBBThrough ==
    bbb.state = "value" =>
        /\ bbb.through \in 0..HoleCount
        /\ \A k \in 1..bbb.through : k \in DOMAIN round.bbbAwardsByHole
        /\ bbb.through < HoleCount => (bbb.through + 1) \notin DOMAIN round.bbbAwardsByHole

C18_Witness ==
    /\ bbb.state = "value"
    /\ bbb.through >= 2
    /\ bbb.through < HoleCount
    /\ \E h \in DOMAIN round.bbbAwardsByHole : h > bbb.through + 1
    /\ \A k \in Range(AwardKeys) : round.bbbAwardsByHole[1][k] = NoPlayer

----------------------------------------------------------------------------
(* Claims about repeated evaluation, checked under SpecTwice *)

C19_WitnessDirectCall ==
    /\ again # NotComputed
    /\ call.fn = "settlementLinesFromNet"
    /\ Len(result.lines) >= 3
    /\ again.lines = result.lines

----------------------------------------------------------------------------
(* Claims about the optional money configuration, checked under SpecMoney *)

\* the dollars per point of round r is set to a number > 0
PositiveField(r, f) == f \in DOMAIN r /\ r[f] > 0

\* C20: the Wolf (BBB) settlement is computed exactly when the round is a
\* Wolf (BBB) round whose dollars per point is set and > 0; when it is
\* missing, zero or negative, or the game differs, the settlement is null.
C20_NoMoneyNoSettlement ==
    skins # NotComputed =>
        /\ IF round.game = "wolf" /\ PositiveField(round, "wolfDollarsPerPointCents")
           THEN /\ wolfSettlement.state = "value"
                /\ DOMAIN wolfSettlement.netByPlayer = Range(round.players)
           ELSE wolfSettlement = NullMemo
        /\ IF round.game = "bbb" /\ PositiveField(round, "bbbDollarsPerPointCents")
           THEN /\ bbbSettlement.state = "value"
                /\ DOMAIN bbbSettlement.netByPlayer = Range(round.players)
           ELSE bbbSettlement = NullMemo

C20_Witness ==
    /\ skins # NotComputed
    /\ round.game = "wolf"
    /\ "wolfDollarsPerPointCents" \in DOMAIN round
    /\ round.wolfDollarsPerPointCents < 0
    /\ wolfSettlement = NullMemo
    /\ \E p \in Range(round.players) : wolf.pointsByPlayer[p] # 0

\* a BBB round whose dollars per point was never set has no settlement either
C20_WitnessUnset ==
    /\ skins # NotComputed
    /\ round.game = "bbb"
    /\ "bbbDollarsPerPointCents" \notin DOMAIN round
    /\ bbbSettlement = NullMemo
    /\ \E p \in Range(round.players) : bbb.pointsByPlayer[p] > 0

----------------------------------------------------------------------------
(* App: the round on screen, score entry, lock, clear and Undo (App.tsx) *)

MaxAppHole == 1     \* score entry reaches holes 1..MaxAppHole
MaxAppStroke == 5   \* strokes entered are IncBase..MaxAppStroke
MaxUid == 8         \* uid() hands out at most MaxUid ids
MaxUndo == 2        \* at most MaxUndo clears register an Undo
MaxActors == 1      \* the buttons pressed are those of the first MaxActors players
MaxNewRounds == 2   \* a session creates up to StorageMax + MaxNewRounds + 1 rounds
MaxDeletes == 1     \* rounds are deleted while at most MaxDeletes are missing

IncBase == 4        \* incStroke starts an empty entry from 4

AppHoles == 1..MaxAppHole
AppStrokes == IncBase..MaxAppStroke
Actors(r) == {r.players[k] : k \in 1..Min2(MaxActors, Len(r.players))}

\* `${prefix}_${random}_${Date.now()}`: the n-th id handed out
uid(prefix, n) == prefix \o "_" \o ToString(n)

\* { ...r, [f]: v }
With(r, f, v) == [x \in DOMAIN r \cup {f} |-> IF x = f THEN v ELSE r[x]]

\* n is the number of ids handed out before the call; createdAt follows the clock
createEmptySkinsRound(n) ==
    [id |-> uid("round", n + 1), game |-> "skins", stakeCents |-> 500,
     players |-> <<uid("p", n + 2), uid("p", n + 3)>>,
     strokesByHole |-> EmptyMap, createdAt |-> n + 1, locked |-> FALSE]

createEmptyWolfRound(n) ==
    [id |-> uid("round", n + 1), game |-> "wolf",
     wolfPointsPerHole |-> 1, wolfLoneMultiplier |-> 2,
     wolfDollarsPerPointCents |-> 0, wolfStartingIndex |-> 0,
     wolfPartnerByHole |-> EmptyMap,
     players |-> <<uid("p", n + 2), uid("p", n + 3), uid("p", n + 4), uid("p", n + 5)>>,
     strokesByHole |-> EmptyMap, createdAt |-> n + 1, locked |-> FALSE]

createEmptyBBBRound(n) ==
    [id |-> uid("round", n + 1), game |-> "bbb",
     players |-> <<uid("p", n + 2), uid("p", n + 3)>>,
     strokesByHole |-> EmptyMap, bbbAwardsByHole |-> EmptyMap,
     createdAt |-> n + 1, locked |-> FALSE]

\* the ids one new round takes: its own and one per player
UidsOf(game) == IF game = "wolf" THEN 1 + WolfPlayers ELSE 1 + MinPlayers

createEmptyRound(game, n) ==
    IF game = "wolf" THEN createEmptyWolfRound(n)
    ELSE IF game = "bbb" THEN createEmptyBBBRound(n)
    ELSE createEmptySkinsRound(n)

\* storage.ts upsertRound
upsertRound(data, r) ==
    LET idx == {k \in 1..Len(data.rounds) : data.rounds[k].id = r.id}
        nextRounds == IF idx # {}
                      THEN [data.rounds EXCEPT ![CHOOSE k \in idx : \A m \in idx : k <= m] = r]
                      ELSE Append(data.rounds, r)
    IN With([data EXCEPT !.rounds = nextRounds], "activeRoundId", r.id)

StorageMax == 25

\* .sort((a, b) => (b.createdAt || 0) - (a.createdAt || 0)), a stable sort
RECURSIVE InsertByCreatedAt(_, _)
InsertByCreatedAt(sorted, x) ==
    IF sorted = <<>> THEN <<x>>
    ELSE IF x.createdAt > Head(sorted).createdAt
         THEN <<x>> \o sorted
         ELSE <<Head(sorted)>> \o InsertByCreatedAt(Tail(sorted), x)

RECURSIVE SortByCreatedAt(_)
SortByCreatedAt(s) ==
    IF s = <<>> THEN <<>>
    ELSE InsertByCreatedAt(SortByCreatedAt(SubSeq(s, 1, Len(s) - 1)), s[Len(s)])

\* storage.ts saveRounds: the payload written under the rounds key
RoundsPayload(data) ==
    LET rounds == SubSeq(SortByCreatedAt(data.rounds), 1, Min2(StorageMax, Len(data.rounds)))
    IN IF "activeRoundId" \in DOMAIN data
       THEN [activeRoundId |-> data.activeRoundId, rounds |-> rounds]
       ELSE [rounds |-> rounds]

saveRounds(storage, data) == With(storage, "rounds", RoundsPayload(data))

\* setRound(r2) followed by the persistence effect, which runs because the
\* round object is a new one: upsertRound, saveRounds
SetRound(r2) ==
    /\ round' = r2
    /\ stored' = upsertRound(stored, r2)
    /\ localStorage' = saveRounds(localStorage, stored')

Engines == <<memos, call, result, again>>
Tracker == <<memEvents, writeTimer, now>>
Undoing == <<undoRef, undoActionId, timers>>

\* setStroke: v is '' (NullStroke) or a whole number; values that need a
\* confirm (n <= 1, n >= 15) are not entered here
setStroke(hole, playerId, n) ==
    /\ ~round.locked
    /\ round.game # "bbb"
    /\ SetRound(SetStrokeIn(round, hole, playerId, n))
    /\ UNCHANGED <<Engines, Tracker, Undoing, uidCount>>

incStroke(hole, playerId, delta) ==
    /\ ~round.locked
    /\ round.game # "bbb"
    /\ LET holeRec == StrokesAt(round, hole)
           base == IF IsNumber(holeRec, playerId) THEN holeRec[playerId] ELSE IncBase
       IN /\ base + delta \in AppStrokes
          /\ SetRound(SetStrokeIn(round, hole, playerId, base + delta))
    /\ UNCHANGED <<Engines, Tracker, Undoing, uidCount>>

\* the timeout ids not pending: window.setTimeout returns one of them
FreshTimer(pending) == CHOOSE t \in 1..(Cardinality(pending) + 1) : \A x \in pending : x.id # t

\* registerUndo: the closure `restore` is kept as the data it captured; roundId
\* is the round on screen when the clear ran, which the closure does not capture
registerUndo(restore) ==
    LET kept == {t \in timers : undoRef = NoUndo \/ t.id # undoRef.timeoutId}
        id == undoActionId + 1
        timeoutId == FreshTimer(kept)
    IN /\ undoActionId < MaxUndo
       /\ undoActionId' = id
       /\ timers' = kept \cup {[id |-> timeoutId, undoId |-> id]}
       /\ undoRef' = [id |-> id, timeoutId |-> timeoutId, restore |-> restore]

\* for (const p of r.players) nextHole[p.id] = null
ClearedHole(r, holeRec) ==
    [p \in DOMAIN holeRec \cup Range(r.players) |->
        IF p \in Range(r.players) THEN NullStroke ELSE holeRec[p]]

PutHole(r, hole, rec) ==
    [r EXCEPT !.strokesByHole =
        [h \in DOMAIN r.strokesByHole \cup {hole} |->
            IF h = hole THEN rec ELSE r.strokesByHole[h]]]

PutAwards(r, hole, rec) ==
    [r EXCEPT !.bbbAwardsByHole =
        [h \in DOMAIN r.bbbAwardsByHole \cup {hole} |->
            IF h = hole THEN rec ELSE r.bbbAwardsByHole[h]]]

\* clearHole of a Skins or Wolf round, confirmed. The updater has set didClear
\* and previousHole when setRound returns only if React ran it eagerly.
clearHoleStrokes(hole, eager) ==
    LET holeRec == StrokesAt(round, hole)
    IN /\ ~round.locked
       /\ round.game # "bbb"
       /\ \E p \in Range(round.players) : IsNumber(holeRec, p)
       /\ SetRound(PutHole(round, hole, ClearedHole(round, holeRec)))
       /\ IF eager
          THEN registerUndo([kind |-> "hole", hole |-> hole, restoreHole |-> holeRec,
                             roundId |-> round.id])
          ELSE UNCHANGED Undoing
       /\ UNCHANGED <<Engines, Tracker, uidCount>>

\* clearHole of a BBB round, confirmed: the record of the hole is deleted
clearHoleAwards(hole, eager) ==
    /\ ~round.locked
    /\ round.game = "bbb"
    /\ hole \in DOMAIN round.bbbAwardsByHole
    /\ SetRound([round EXCEPT !.bbbAwardsByHole =
                    [h \in DOMAIN @ \ {hole} |-> @[h]]])
    /\ IF eager
       THEN registerUndo([kind |-> "awards", hole |-> hole,
                          restoreAwards |-> round.bbbAwardsByHole[hole],
                          roundId |-> round.id])
       ELSE UNCHANGED Undoing
    /\ UNCHANGED <<Engines, Tracker, uidCount>>

clearScoreWithUndo(hole, playerId, eager) ==
    LET holeRec == StrokesAt(round, hole)
    IN /\ ~round.locked
       /\ round.game # "bbb"
       /\ IsNumber(holeRec, playerId)
       /\ SetRound(SetStrokeIn(round, hole, playerId, NullStroke))
       /\ IF eager
          THEN registerUndo([kind |-> "score", hole |-> hole, playerId |-> playerId,
                             previousValue |-> holeRec[playerId], roundId |-> round.id])
          ELSE UNCHANGED Undoing
       /\ UNCHANGED <<Engines, Tracker, uidCount>>

\* the three restore closures, applied to the round on screen
Restored(r, u) ==
    IF u.kind = "hole" THEN PutHole(r, u.hole, u.restoreHole)
    ELSE IF u.kind = "score" THEN SetStrokeIn(r, u.hole, u.playerId, u.previousValue)
    ELSE IF r.game # "bbb" THEN r
    ELSE PutAwards(r, u.hole, u.restoreAwards)

\* the Undo button of the toast of undo `id`
UndoClick(id) ==
    /\ undoRef # NoUndo
    /\ undoRef.id = id
    /\ timers' = {t \in timers : t.id # undoRef.timeoutId}
    /\ undoRef' = NoUndo
    /\ IF undoRef.restore.kind = "awards" /\ round.game # "bbb"
       THEN UNCHANGED <<round, stored, localStorage>>
       ELSE SetRound(Restored(round, undoRef.restore))
    /\ UNCHANGED <<Engines, Tracker, undoActionId, uidCount>>

\* the 8000 ms timeout of registerUndo fires
UndoTimeout ==
    \E t \in timers :
        /\ timers' = timers \ {t}
        /\ undoRef' = IF undoRef # NoUndo /\ undoRef.id = t.undoId THEN NoUndo ELSE undoRef
        /\ UNCHANGED <<Engines, Tracker, round, stored, localStorage, undoActionId, uidCount>>

lockRound ==
    /\ SetRound([round EXCEPT !.locked = TRUE])
    /\ UNCHANGED <<Engines, Tracker, Undoing, uidCount>>

\* unlockRound, confirmed
unlockRound ==
    /\ SetRound([round EXCEPT !.locked = FALSE])
    /\ UNCHANGED <<Engines, Tracker, Undoing, uidCount>>

setWolfPartnerForHole(hole, partnerId) ==
    /\ ~round.locked
    /\ round.game = "wolf"
    /\ SetRound([round EXCEPT !.wolfPartnerByHole =
                    [h \in DOMAIN @ \cup {hole} |-> IF h = hole THEN partnerId ELSE @[h]]])
    /\ UNCHANGED <<Engines, Tracker, Undoing, uidCount>>

emptyHoleAwards == [k \in {"bingo", "bango", "bongo"} |-> NoPlayer]

setBBBAwardForHole(hole, award, winnerId) ==
    /\ ~round.locked
    /\ round.game = "bbb"
    /\ LET cur == round.bbbAwardsByHole
           holeRec == IF hole \in DOMAIN cur THEN cur[hole] ELSE emptyHoleAwards
       IN SetRound(PutAwards(round, hole, [holeRec EXCEPT ![award] = winnerId]))
    /\ UNCHANGED <<Engines, Tracker, Undoing, uidCount>>

\* startNew while uid() has ids left to hand out
startNewUpTo(game, maxUid) ==
    /\ uidCount + UidsOf(game) <= maxUid
    /\ uidCount' = uidCount + UidsOf(game)
    /\ SetRound(createEmptyRound(game, uidCount))
    /\ UNCHANGED <<Engines, Tracker, Undoing>>

startNew(game) == startNewUpTo(game, MaxUid)

RecentMax == 10

\* the Recent list: stored.rounds sorted by createdAt, newest first, .slice(0, 10)
recentRounds ==
    SubSeq(SortByCreatedAt(stored.rounds), 1, Min2(RecentMax, Len(stored.rounds)))

\* the rounds with a Resume or Open button: the active saved round and the Recent list
Loadable ==
    Range(recentRounds)
        \cup {r \in Range(stored.rounds) : "activeRoundId" \in DOMAIN stored /\ r.id = stored.activeRoundId}

\* loadExistingRound(r) for a round of the Recent list
loadExistingRound(k) ==
    /\ k \in 1..Len(stored.rounds)
    /\ stored.rounds[k] \in Loadable
    /\ round' = stored.rounds[k]
    /\ stored' = upsertRound(stored, stored.rounds[k])
    /\ localStorage' = saveRounds(localStorage, stored')
    /\ UNCHANGED <<Engines, Tracker, Undoing, uidCount>>

(* Specification SpecApp: one session of the app, from its first render *)

InitApp ==
    /\ round = createEmptySkinsRound(0)
    /\ uidCount = UidsOf("skins")
    /\ undoRef = NoUndo
    /\ undoActionId = 0
    /\ stored = NoRounds
    /\ localStorage = EmptyMap
    /\ memEvents = NotLoaded
    /\ writeTimer = NoTimer
    /\ timers = {}
    /\ now = 0
    /\ skins = NotComputed
    /\ settlement = NotComputed
    /\ wolf = NotComputed
    /\ wolfSettlement = NotComputed
    /\ bbb = NotComputed
    /\ bbbSettlement = NotComputed
    /\ call = NoCall
    /\ result = NotComputed
    /\ again = NotComputed

ScoreEntry ==
    \E hole \in AppHoles, playerId \in Actors(round) :
        \/ \E n \in AppStrokes \cup {NullStroke} : setStroke(hole, playerId, n)
        \/ \E delta \in {-1, 1} : incStroke(hole, playerId, delta)

Clearing ==
    \E hole \in AppHoles, eager \in BOOLEAN :
        \/ clearHoleStrokes(hole, eager)
        \/ clearHoleAwards(hole, eager)
        \/ \E playerId \in Actors(round) : clearScoreWithUndo(hole, playerId, eager)

Picking ==
    \E hole \in AppHoles, who \in Actors(round) \cup {NoPlayer} :
        \/ setWolfPartnerForHole(hole, who)
        \/ \E award \in {"bingo", "bango", "bongo"} : setBBBAwardForHole(hole, award, who)

NextApp ==
    \/ ScoreEntry
    \/ Clearing
    \/ Picking
    \/ \E id \in 1..MaxUndo : UndoClick(id)
    \/ UndoTimeout
    \/ lockRound
    \/ unlockRound
    \/ \E game \in {"skins", "wolf", "bbb"} : startNew(game)
    \/ \E k \in 1..(StorageMax + MaxNewRounds) : loadExistingRound(k)

SpecApp == InitApp /\ [][NextApp]_vars

----------------------------------------------------------------------------
(* Claims about the round on screen: specification SpecApp *)

\* the entries the engines score: strokes, Wolf partners, BBB awards
ScoringInputs(r) ==
    <<r.strokesByHole,
      IF "wolfPartnerByHole" \in DOMAIN r THEN r.wolfPartnerByHole ELSE EmptyMap,
      IF "bbbAwardsByHole" \in DOMAIN r THEN r.bbbAwardsByHole ELSE EmptyMap>>

\* C21: a locked round prevents edits: no step taken while the round on screen
\* is locked, and which leaves that round on screen, changes its strokesByHole,
\* wolfPartnerByHole or bbbAwardsByHole; score entry, the clears, the partner
\* and award pickers and the Undo of an earlier clear all leave them alone.
C21_LockedRoundKeepsInputs ==
    [][(round.locked /\ round'.id = round.id)
          => ScoringInputs(round') = ScoringInputs(round)]_vars

\* C28: Undo restores only into the round the clear was made in, and only the
\* most recently registered undo is ever applied: a click on Undo that is not
\* refused belongs to the last registered undo, and when the round on screen
\* is not the round of the clear it leaves that round's entries unchanged.
C28_UndoStaysInItsRound ==
    [][\A id \in 1..MaxUndo :
          UndoClick(id) =>
              /\ undoRef.id = undoActionId
              /\ undoRef.restore.roundId # round.id
                    => ScoringInputs(round') = ScoringInputs(round)]_vars

----------------------------------------------------------------------------
(* Event log: track.ts *)

MaxEarlier == 2     \* an earlier session left MAX - MaxEarlier .. MAX events
MaxTracked == 2     \* track() is called until MAX + MaxTracked events exist

TrackMax == 500     \* MAX
TrackKey == "track" \* KEY

\* an event is told from the others by its ts
Event(ts) == [ts |-> ts]

\* safeParse(localStorage.getItem(KEY))
safeParse(storage) == IF TrackKey \in DOMAIN storage THEN storage[TrackKey] ELSE <<>>

\* what ensureLoaded returns, and leaves in memEvents
ensureLoaded == IF memEvents.loaded THEN memEvents.events ELSE safeParse(localStorage)

\* events.length > MAX ? events.slice(events.length - MAX) : events
Retained(events) ==
    IF Len(events) > TrackMax
    THEN SubSeq(events, Len(events) - TrackMax + 1, Len(events))
    ELSE events

saveToStorage(storage, events) == With(storage, TrackKey, Retained(events))

\* window.clearTimeout(id)
clearTimeout(pending, id) == {t \in pending : t.id # id}

\* a slip that sets a timer on every call
MustSchedule_always(timer) == TRUE

\* if (writeTimer !== null) return
MustSchedule(timer) == timer = NoTimer

\* scheduleWrite, given the timeouts pending: the pair <<writeTimer, timers>> it leaves
scheduleWrite(timer, pending) ==
    IF MustSchedule(timer)
    THEN LET id == FreshTimer(pending) IN <<id, pending \cup {[id |-> id]}>>
    ELSE <<timer, pending>>

Rest == <<round, memos, call, again, uidCount, undoRef, undoActionId, stored>>

track ==
    /\ now < TrackMax + MaxTracked
    /\ now' = now + 1
    /\ memEvents' = [loaded |-> TRUE, events |-> Append(ensureLoaded, Event(now + 1))]
    /\ writeTimer' = scheduleWrite(writeTimer, timers)[1]
    /\ timers' = scheduleWrite(writeTimer, timers)[2]
    /\ UNCHANGED <<Rest, result, localStorage>>

\* getTrackedEvents, and exportTrackedEvents which returns its list as `events`
getTrackedEvents(fn) ==
    /\ memEvents' = [loaded |-> TRUE, events |-> ensureLoaded]
    /\ result' = [state |-> "value", fn |-> fn, events |-> ensureLoaded]
    /\ UNCHANGED <<Rest, localStorage, writeTimer, timers, now>>

clearTrackedEvents ==
    /\ timers' = IF writeTimer # NoTimer THEN clearTimeout(timers, writeTimer) ELSE timers
    /\ writeTimer' = NoTimer
    /\ memEvents' = [loaded |-> TRUE, events |-> <<>>]
    /\ localStorage' = [k \in DOMAIN localStorage \ {TrackKey} |-> localStorage[k]]
    /\ UNCHANGED <<Rest, result, now>>

flushTrackedEvents ==
    /\ timers' = IF writeTimer # NoTimer THEN clearTimeout(timers, writeTimer) ELSE timers
    /\ writeTimer' = NoTimer
    /\ memEvents' = [loaded |-> TRUE, events |-> ensureLoaded]
    /\ localStorage' = saveToStorage(localStorage, ensureLoaded)
    /\ UNCHANGED <<Rest, result, now>>

\* the callback of scheduleWrite runs: writeTimer = null; flushTrackedEvents()
WriteTimerFires ==
    \E t \in timers :
        /\ timers' = timers \ {t}
        /\ writeTimer' = NoTimer
        /\ memEvents' = [loaded |-> TRUE, events |-> ensureLoaded]
        /\ localStorage' = saveToStorage(localStorage, ensureLoaded)
        /\ UNCHANGED <<Rest, result, now>>

(* Specification SpecTrack: a session that starts with an earlier session's log *)

InitTrack ==
    /\ round = NoRound
    /\ skins = NotComputed
    /\ settlement = NotComputed
    /\ wolf = NotComputed
    /\ wolfSettlement = NotComputed
    /\ bbb = NotComputed
    /\ bbbSettlement = NotComputed
    /\ call = NoCall
    /\ result = NotComputed
    /\ again = NotComputed
    /\ uidCount = 0
    /\ undoRef = NoUndo
    /\ undoActionId = 0
    /\ stored = NoRounds
    /\ memEvents = NotLoaded
    /\ writeTimer = NoTimer
    /\ timers = {}
    /\ \E k \in (TrackMax - MaxEarlier)..TrackMax :
          /\ now = k
          /\ localStorage = [x \in {TrackKey} |-> [n \in 1..k |-> Event(n)]]

NextTrack ==
    \/ track
    \/ \E fn \in {"getTrackedEvents", "exportTrackedEvents"} : getTrackedEvents(fn)
    \/ clearTrackedEvents
    \/ flushTrackedEvents
    \/ WriteTimerFires

SpecTrack == InitTrack /\ [][NextTrack]_vars

\* the browser runs a pending timeout after its delay
SpecTrackLive == SpecTrack /\ WF_vars(WriteTimerFires)

----------------------------------------------------------------------------
(* Claims about the event log: specifications SpecTrack, SpecTrackLive *)

\* C22: the event log keeps at most 500 events: the list written to storage
\* and the list returned by getTrackedEvents / exportTrackedEvents each hold
\* at most 500 events, the most recently tracked ones in order.
C22_EventLogCapped ==
    /\ TrackKey \in DOMAIN localStorage =>
          /\ Len(localStorage[TrackKey]) <= TrackMax
          /\ \A k \in 1..(Len(localStorage[TrackKey]) - 1) :
                localStorage[TrackKey][k + 1].ts = localStorage[TrackKey][k].ts + 1
    /\ result # NotComputed =>
          /\ Len(result.events) <= TrackMax
          /\ \A k \in 1..(Len(result.events) - 1) :
                result.events[k + 1].ts = result.events[k].ts + 1


TrackedInMemory(ts) ==
    memEvents.loaded /\ \E k \in 1..Len(memEvents.events) : memEvents.events[k].ts = ts

WrittenToStorage(ts) ==
    \E k \in 1..Len(safeParse(localStorage)) : safeParse(localStorage)[k].ts = ts

\* the last events of the list in memory, as many as the cap allows
LatestInMemory(events) ==
    [k \in 1..Min2(TrackMax, Len(events)) |-> events[Len(events) - Min2(TrackMax, Len(events)) + k]]

C30_WitnessAfterClear ==
    /\ memEvents.loaded
    /\ Len(memEvents.events) = 1
    /\ memEvents.events[1].ts = now
    /\ Cardinality(timers) = 1
    /\ safeParse(localStorage) = <<>>

----------------------------------------------------------------------------
(* Setup: addPlayer and removePlayer (App.tsx) *)

\* if (r.game === 'wolf') return r; if (r.players.length >= 4) return r
CanAddPlayer(r) == r.game # "wolf" /\ Len(r.players) < MaxPlayers

\* a slip that forgets the lower limit
CanRemovePlayer_noMinimum(r) == r.game # "wolf"

\* if (r.game === 'wolf') return r; if (r.players.length <= 2) return r
CanRemovePlayer(r) == r.game # "wolf" /\ Len(r.players) > MinPlayers

addPlayer ==
    /\ CanAddPlayer(round)
    /\ uidCount < MaxUid
    /\ uidCount' = uidCount + 1
    /\ SetRound([round EXCEPT !.players = Append(@, uid("p", uidCount + 1))])
    /\ UNCHANGED <<Engines, Tracker, Undoing>>

\* next[p.id] = byPlayer?.[p.id] ?? null, for the players that stay
RemainingStrokes(players, byPlayer) ==
    [p \in Range(players) |-> IF p \in DOMAIN byPlayer THEN byPlayer[p] ELSE NullStroke]

removePlayer(id) ==
    /\ CanRemovePlayer(round)
    /\ LET players == SelectSeq(round.players, LAMBDA p : p # id)
       IN SetRound([round EXCEPT
                       !.players = players,
                       !.strokesByHole = [h \in DOMAIN @ |-> RemainingStrokes(players, @[h])]])
    /\ UNCHANGED <<Engines, Tracker, Undoing, uidCount>>

(* Specification SpecPlayers: a new round in setup and score entry *)

InitPlayers ==
    /\ \E game \in {"skins", "wolf", "bbb"} :
          /\ round = createEmptyRound(game, 0)
          /\ uidCount = UidsOf(game)
    /\ undoRef = NoUndo
    /\ undoActionId = 0
    /\ stored = NoRounds
    /\ localStorage = EmptyMap
    /\ memEvents = NotLoaded
    /\ writeTimer = NoTimer
    /\ timers = {}
    /\ now = 0
    /\ skins = NotComputed
    /\ settlement = NotComputed
    /\ wolf = NotComputed
    /\ wolfSettlement = NotComputed
    /\ bbb = NotComputed
    /\ bbbSettlement = NotComputed
    /\ call = NoCall
    /\ result = NotComputed
    /\ again = NotComputed

NextPlayers ==
    \/ addPlayer
    \/ \E id \in Range(round.players) : removePlayer(id)
    \/ \E hole \in AppHoles, playerId \in Actors(round), n \in AppStrokes :
          setStroke(hole, playerId, n)

SpecPlayers == InitPlayers /\ [][NextPlayers]_vars

----------------------------------------------------------------------------
(* Claims about setup: specification SpecPlayers *)

\* C23: from a freshly created round, under any sequence of addPlayer and
\* removePlayer (with score entry in between), the round has 2 to 4 players, a
\* Wolf round keeps exactly its 4 players, and every strokesByHole record has
\* entries only for the players of the round.
C23_PlayerCountAndStrokes ==
    /\ Len(round.players) \in MinPlayers..MaxPlayers
    /\ round.game = "wolf" => round.players = createEmptyWolfRound(0).players
    /\ \A h \in DOMAIN round.strokesByHole :
          DOMAIN round.strokesByHole[h] \subseteq Range(round.players)
    /\ \A i, j \in 1..Len(round.players) : round.players[i] = round.players[j] => i = j

\* a Skins round that grew to four players and lost its first player after a
\* score was entered for that player
C23_Witness ==
    /\ round.game = "skins"
    /\ Len(round.players) = MaxPlayers - 1
    /\ round.players[1] # createEmptySkinsRound(0).players[1]
    /\ uidCount >= UidsOf("skins") + 2
    /\ \E h \in DOMAIN round.strokesByHole :
          /\ DOMAIN round.strokesByHole[h] = Range(round.players)
          /\ \E p \in Range(round.players) : round.strokesByHole[h][p] # NullStroke

----------------------------------------------------------------------------
(* BBB settlement relative to the table average: the earlier bbbSettlement.ts *)

\* Math.round(num / den) for den > 0: the nearest integer, a half goes up
MathRound(num, den) == (2 * num + den) \div (2 * den)

\* Math.round((pts - avg) * dollarsPerPointCents), avg = totalPoints / N
AverageNet(pts, N, totalPoints, dollarsPerPointCents) ==
    MathRound((pts * N - totalPoints) * dollarsPerPointCents, N)

\* a slip that hands the drift to the player at the bottom
Leader_last(players, netByPlayer) ==
    SortByNet(cloneNet(players, netByPlayer), TRUE)[Len(players)].p

\* players.slice().sort((a, b) => net[b] - net[a])[0]
Leader(players, netByPlayer) == SortByNet(cloneNet(players, netByPlayer), TRUE)[1].p

computeBBBSettlementAverage(players, pointsByPlayer, dollarsPerPointCents) ==
    LET N == Len(players)
        totalPoints == TotalPoints(players, pointsByPlayer)
        rounded == [p \in Range(players) |->
                       AverageNet(NetOr0(pointsByPlayer, p), N, totalPoints, dollarsPerPointCents)]
        drift == SumOver(players, rounded)
        leader == Leader(players, rounded)
        netByPlayer == IF drift # 0 THEN [rounded EXCEPT ![leader] = @ - drift] ELSE rounded
    IN IF N <= 1
       THEN [state |-> "value", netByPlayer |-> EmptyMap, lines |-> <<>>]
       ELSE [state |-> "value", netByPlayer |-> netByPlayer,
             lines |-> settlementLinesFromNet(players, netByPlayer)]

(* Specification SpecAverage: direct calls of the average-based adapter *)

InitAverage ==
    /\ NoShell
    /\ NoRender
    /\ \E n \in MinPlayers..MaxPlayers, cents \in 1..MaxStake :
         \E m \in PointMaps(FirstPlayers(n)) :
            call = [fn |-> "computeBBBSettlementAverage", players |-> FirstPlayers(n),
                    pointsByPlayer |-> m, dollarsPerPointCents |-> cents]
    /\ result = NotComputed
    /\ again = NotComputed

CallComputeBBBSettlementAverage ==
    /\ call.fn = "computeBBBSettlementAverage"
    /\ result = NotComputed
    /\ result' = computeBBBSettlementAverage(call.players, call.pointsByPlayer,
                                             call.dollarsPerPointCents)
    /\ UNCHANGED <<shell, round, memos, call, again>>

SpecAverage == InitAverage /\ [][CallComputeBBBSettlementAverage]_vars

----------------------------------------------------------------------------
(* Claims about the average-based adapter: specification SpecAverage *)

Abs(x) == IF x < 0 THEN -x ELSE x

\* round((points[p] - totalPoints / N) * dollarsPerPointCents), from the call
RoundedNet(p) ==
    LET N == Len(call.players)
        total == SumOver(call.players, [q \in Range(call.players) |-> NetOr0(call.pointsByPlayer, q)])
        num == (NetOr0(call.pointsByPlayer, p) * N - total) * call.dollarsPerPointCents
    IN (2 * num + N) \div (2 * N)

Drift == SumOver(call.players, [q \in Range(call.players) |-> RoundedNet(q)])

\* the players whose net is not the rounded one
Adjusted == {p \in Range(call.players) : result.netByPlayer[p] # RoundedNet(p)}

AverageCalled == call.fn = "computeBBBSettlementAverage" /\ result.state = "value"

\* C24: when the rounded nets do not sum to zero the whole drift goes to the
\* party whose net has the largest magnitude, and the nets then sum to zero.
C24_DriftToLargestMagnitude ==
    (AverageCalled /\ Drift # 0) =>
        /\ SumOver(call.players, result.netByPlayer) = 0
        /\ \E p \in Range(call.players) :
              /\ Adjusted = {p}
              /\ result.netByPlayer[p] = RoundedNet(p) - Drift
              /\ \A q \in Range(call.players) : Abs(RoundedNet(p)) >= Abs(RoundedNet(q))

\* C24 as the code has it: the whole drift goes to the leader, the player
\* with the highest rounded net (the first of them in player order), and the
\* nets then sum to zero; without drift the nets are the rounded ones.
C24_DriftToLeader ==
    AverageCalled =>
        /\ SumOver(call.players, result.netByPlayer) = 0
        /\ Drift = 0 => Adjusted = {}
        /\ Drift # 0 =>
              \E k \in 1..Len(call.players) :
                  /\ Adjusted = {call.players[k]}
                  /\ result.netByPlayer[call.players[k]] = RoundedNet(call.players[k]) - Drift
                  /\ \A m \in 1..Len(call.players) :
                        /\ RoundedNet(call.players[k]) >= RoundedNet(call.players[m])
                        /\ m < k => RoundedNet(call.players[k]) > RoundedNet(call.players[m])

\* drift handed to a leader whose net is not the largest in magnitude
C24_Witness ==
    /\ AverageCalled
    /\ Drift # 0
    /\ \E p \in Adjusted, q \in Range(call.players) : Abs(RoundedNet(p)) < Abs(RoundedNet(q))
    /\ result.lines # <<>>

----------------------------------------------------------------------------
(* More claims about Skins rounds: specification SpecSkins *)

\* C25: in every Skins round, complete or not, the skins won by all players
\* plus carryToNext equal the number of holes on which every player has a
\* stroke; a hole with a missing stroke awards nothing and passes its carry
\* on unchanged; wonSkins is 0 on a hole without a winner and at least 1 on
\* a hole with one.
C25_SkinsCountEnteredHoles ==
    skins.state = "value" =>
        /\ SumOver(round.players, skins.skinsWon) + skins.carryToNext
              = Cardinality({h \in Holes : AllEntered(round, h)})
        /\ \A h \in Holes :
              /\ ~AllEntered(round, h) =>
                    /\ skins.holeResults[h].wonSkins = 0
                    /\ skins.holeResults[h].winnerId = NoPlayer
                    /\ CarryPassedOn(skins, h) = skins.holeResults[h].carrySkins
              /\ skins.holeResults[h].winnerId = NoPlayer => skins.holeResults[h].wonSkins = 0
              /\ skins.holeResults[h].winnerId # NoPlayer => skins.holeResults[h].wonSkins >= 1

\* a partly entered round with a carried skin won and a skin left after hole 18
C25_Witness ==
    /\ skins.state = "value"
    /\ \E h \in Holes : ~AllEntered(round, h) /\ StrokesAt(round, h) # EmptyMap
    /\ \E h \in Holes : skins.holeResults[h].wonSkins >= 2
    /\ skins.carryToNext >= 1
    /\ SumOver(round.players, skins.skinsWon) + skins.carryToNext < HoleCount

----------------------------------------------------------------------------
(* More claims about the netting engine: specification SpecNet *)

TotalCredit(players, net) ==
    SumOver(players, [p \in Range(players) |-> IF NetOr0(net, p) > 0 THEN NetOr0(net, p) ELSE 0])

TotalDebt(players, net) ==
    SumOver(players, [p \in Range(players) |-> IF NetOr0(net, p) < 0 THEN -NetOr0(net, p) ELSE 0])

RECURSIVE TotalTransferred(_)
TotalTransferred(ls) ==
    IF ls = <<>> THEN 0 ELSE Head(ls).amountCents + TotalTransferred(Tail(ls))

\* C26: for any balance map, summing to zero or not, no debtor pays more than
\* it owes, no creditor receives more than it is owed, nobody else pays or
\* receives, the amount transferred is min(total credit, total debt), and so
\* the smaller side is settled in full.
C26_NeverOverSettles ==
    (call.fn = "settlementLinesFromNet" /\ result.state = "value") =>
        LET players == call.players
            net == call.netByPlayer
            credit == TotalCredit(players, net)
            debt == TotalDebt(players, net)
        IN /\ \A p \in Range(players) :
                /\ NetOr0(net, p) < 0 =>
                      /\ Paid(result.lines, p) <= -NetOr0(net, p)
                      /\ Received(result.lines, p) = 0
                      /\ debt <= credit => Paid(result.lines, p) = -NetOr0(net, p)
                /\ NetOr0(net, p) > 0 =>
                      /\ Received(result.lines, p) <= NetOr0(net, p)
                      /\ Paid(result.lines, p) = 0
                      /\ credit <= debt => Received(result.lines, p) = NetOr0(net, p)
                /\ NetOr0(net, p) = 0 =>
                      Paid(result.lines, p) = 0 /\ Received(result.lines, p) = 0
           /\ TotalTransferred(result.lines) = Min2(credit, debt)

\* more is owed than is claimed and more is claimed than is owed, each with a
\* party left partly unsettled
C26_Witness ==
    /\ call.fn = "settlementLinesFromNet"
    /\ result.state = "value"
    /\ TotalCredit(call.players, call.netByPlayer) > TotalDebt(call.players, call.netByPlayer)
    /\ TotalDebt(call.players, call.netByPlayer) > 0
    /\ \E p \in Range(call.players) :
          /\ 0 < Received(result.lines, p)
          /\ Received(result.lines, p) < NetOr0(call.netByPlayer, p)
    /\ \E p \in Range(call.players) :
          NetOr0(call.netByPlayer, p) > 0 /\ Received(result.lines, p) = 0

----------------------------------------------------------------------------
(* The matching loop of settlementLinesFromNet, one iteration at a time *)

\* a slip that never finds an entry settled
Settled_never(x) == FALSE

\* if (d.net === 0) i++, if (c.net === 0) j++
Settled(x) == x.net = 0

\* while (i < debtors.length && j < creditors.length), with 1-based i and j
InLoop(st) == st.i <= Len(st.debtors) /\ st.j <= Len(st.creditors)

\* one pass through the body of the loop
MatchStep(st) ==
    LET d == st.debtors[st.i]
        c == st.creditors[st.j]
        pay == Pay(d, c)
        d2 == IF pay > 0 THEN [d EXCEPT !.net = @ + pay] ELSE d
        c2 == IF pay > 0 THEN [c EXCEPT !.net = @ - pay] ELSE c
    IN [state |-> "running",
        debtors |-> [st.debtors EXCEPT ![st.i] = d2],
        creditors |-> [st.creditors EXCEPT ![st.j] = c2],
        i |-> IF Settled(d2) THEN st.i + 1 ELSE st.i,
        j |-> IF Settled(c2) THEN st.j + 1 ELSE st.j,
        lines |-> IF pay > 0 THEN Append(st.lines, Line(d, c, pay)) ELSE st.lines]

\* the function is entered: both lists are built and sorted, i = j = 0
EnterLoop ==
    /\ call.fn = "settlementLinesFromNet"
    /\ result = NotComputed
    /\ result' = [state |-> "running",
                  debtors |-> Debtors(call.players, call.netByPlayer),
                  creditors |-> Creditors(call.players, call.netByPlayer),
                  i |-> 1, j |-> 1, lines |-> <<>>]
    /\ UNCHANGED <<shell, round, memos, call, again>>

LoopIteration ==
    /\ result.state = "running"
    /\ InLoop(result)
    /\ result' = MatchStep(result)
    /\ UNCHANGED <<shell, round, memos, call, again>>

\* the loop condition fails: return lines
LeaveLoop ==
    /\ result.state = "running"
    /\ ~InLoop(result)
    /\ result' = [result EXCEPT !.state = "value"]
    /\ UNCHANGED <<shell, round, memos, call, again>>

NextLoop == EnterLoop \/ LoopIteration \/ LeaveLoop

(* Specification SpecLoop: a call that is never suspended *)

SpecLoop == InitNet /\ [][NextLoop]_vars /\ WF_vars(NextLoop)

----------------------------------------------------------------------------
(* Claims about the matching loop: specification SpecLoop *)

\* C27: the matching loop terminates for every balance map, summing to zero
\* or not: each iteration emits one line with a positive amount and moves
\* past the debtor, the creditor or both, so there are at most
\* (#creditors + #debtors) iterations, and the loop is left as soon as either
\* list is exhausted, with the lines settlementLinesFromNet returns.
C27_LoopTerminates ==
    /\ <>(result.state = "value")
    /\ [][LoopIteration =>
             /\ Len(result'.lines) = Len(result.lines) + 1
             /\ result'.lines[Len(result'.lines)].amountCents > 0
             /\ result'.i >= result.i
             /\ result'.j >= result.j
             /\ result'.i + result'.j > result.i + result.j]_vars
    /\ [](result.state \in {"running", "value"} =>
             /\ Len(result.lines) <= CreditorCount(call.players, call.netByPlayer)
                                      + DebtorCount(call.players, call.netByPlayer)
             /\ Len(result.lines) <= (result.i - 1) + (result.j - 1))
    /\ [](result.state = "value" =>
             /\ result.i > Len(result.debtors) \/ result.j > Len(result.creditors)
             /\ result.i <= Len(result.debtors) + 1
             /\ result.j <= Len(result.creditors) + 1
             /\ result.lines = settlementLinesFromNet(call.players, call.netByPlayer))

\* a loop left after three iterations with creditors still waiting
C27_Witness ==
    /\ result.state = "value"
    /\ "i" \in DOMAIN result
    /\ Len(result.lines) = 3
    /\ result.i = Len(result.debtors) + 1
    /\ result.j <= Len(result.creditors)
    /\ ~ZeroSum(call.players, call.netByPlayer)

----------------------------------------------------------------------------
(* Saved rounds: storage.ts and the Recent list of App.tsx *)

\* storage.ts deleteRound; an activeRoundId that is undefined is left out
deleteRound(data, roundId) ==
    LET rounds == SelectSeq(data.rounds, LAMBDA r : r.id # roundId)
    IN IF "activeRoundId" \in DOMAIN data /\ data.activeRoundId # roundId
       THEN [rounds |-> rounds, activeRoundId |-> data.activeRoundId]
       ELSE IF "activeRoundId" \in DOMAIN data /\ rounds # <<>>
       THEN [rounds |-> rounds, activeRoundId |-> rounds[1].id]
       ELSE [rounds |-> rounds]

\* the rounds created that stored.rounds does not hold
Missing == uidCount \div UidsOf("skins") - Len(stored.rounds)

\* deleteExistingRound, confirmed, from the Delete button of a Recent round
deleteExistingRound(id) ==
    /\ Missing <= MaxDeletes
    /\ \E r \in Range(recentRounds) : r.id = id
    /\ stored' = deleteRound(stored, id)
    /\ localStorage' = saveRounds(localStorage, stored')
    /\ UNCHANGED <<Engines, Tracker, Undoing, round, uidCount>>

(* Specification SpecStore: one session in which Skins rounds are created, *)
(* reopened and deleted                                                     *)

NextStore ==
    \/ startNewUpTo("skins", UidsOf("skins") * (StorageMax + MaxNewRounds + 1))
    \/ \E k \in 1..(StorageMax + MaxNewRounds) : loadExistingRound(k)
    \/ \E r \in Range(stored.rounds) : deleteExistingRound(r.id)

SpecStore == InitApp /\ [][NextStore]_vars

----------------------------------------------------------------------------
(* Claims about saved rounds: specification SpecStore *)

\* C29: the saved payload holds at most 25 rounds with pairwise distinct ids,
\* and its activeRoundId is undefined or the id of a round in the payload.
C29_PayloadKeepsActiveRound ==
    "rounds" \in DOMAIN localStorage =>
        LET payload == localStorage["rounds"]
        IN /\ Len(payload.rounds) <= StorageMax
           /\ \A i, j \in 1..Len(payload.rounds) :
                 payload.rounds[i].id = payload.rounds[j].id => i = j
           /\ "activeRoundId" \in DOMAIN payload =>
                 \E k \in 1..Len(payload.rounds) : payload.rounds[k].id = payload.activeRoundId

====
